---- MODULE Spec2Model ----
(***************************************************************************)
(* Entity normalizer of the Docai invoice service.                         *)
(*                                                                         *)
(* The repository holds three variants of the same server:                 *)
(*   src/unnamed/part_000  grouped schema (pick / getFromGroupOrFlat /     *)
(*                         getRepeatedGroupItems / flattenEntities)        *)
(*   src/server.js         flat schema (normalizeEntities / field /        *)
(*                         extractLineItems / buildInvoice)                *)
(*   src/unnamed/part_001  text-regex fallback (toIsoDate, extractLineItems*)
(*                         over the document text, entityText)             *)
(* Where two files define a function of the same name, the server.js one   *)
(* is prefixed srv_; bestEntity of part_001, which takes the document, is  *)
(* doc_bestEntity.                                                         *)
(*                                                                         *)
(* JavaScript values are tagged records:                                   *)
(*   [t |-> "undef"]            undefined (an absent property)             *)
(*   [t |-> "null"]             null                                       *)
(*   [t |-> "str", s |-> "G"]   a string used as a label (entity type):    *)
(*                              only compared and concatenated             *)
(*   [t |-> "txt", c |-> <<>>]  a string used as text, a sequence of       *)
(*                              one-character strings (trimmed, matched)   *)
(*   [t |-> "num", n |-> 7]     a number; confidences are in tenths        *)
(*   [t |-> "arr", a |-> <<>>]  an array                                   *)
(*   [t |-> "nv", text |-> v]   a normalizedValue object {text: v}         *)
(*   [t |-> "ent", type, mentionText, normalizedValue, confidence,         *)
(*    properties]               an entity                                  *)
(*   [t |-> "flat", type, mentionText, normalizedText, confidence, ref]    *)
(*                              a record of flattenEntities                *)
(* Plain objects built by the code ({value, confidence}, the output        *)
(* records) are TLA+ records and functions over their keys.                *)
(***************************************************************************)
EXTENDS Integers, Sequences, FiniteSets, TLC

VARIABLES
  entities,   \* the entity list handed over by the extractor (doc.entities)
  text,       \* the raw document text (doc.text), or the string argument
  call,       \* the operation last invoked, with its arguments
  ret,        \* what that operation returned
  heap,       \* what the server process holds between two requests
  log         \* the requests served so far, each with its input and record

vars == <<entities, text, call, ret, heap, log>>

---------------------------------------------------------------------------
(* Bounds of the model *)

\* longest top-level entity list of the flat specifications
MaxList == 3
\* longest top-level entity list of the grouped specification and of the
\* review specification
MaxEntities == 2

---------------------------------------------------------------------------
(* JavaScript values *)

Undef == [t |-> "undef"]
Null == [t |-> "null"]
Str(s) == [t |-> "str", s |-> s]
Txt(c) == [t |-> "txt", c |-> c]
Num(n) == [t |-> "num", n |-> n]
Arr(a) == [t |-> "arr", a |-> a]
NvObj(v) == [t |-> "nv", text |-> v]
\* the outcome of an operation that raised a TypeError
Thrown == [t |-> "throw"]
Entity(ty, mt, nv, cf, pr) ==
  [t |-> "ent", type |-> ty, mentionText |-> mt, normalizedValue |-> nv,
   confidence |-> cf, properties |-> pr]

SeqsUpTo(S, n) == UNION {[1..k -> S] : k \in 0..n}

\* ToBoolean: undefined, null, "" and 0 are falsy
Truthy(v) ==
  CASE v.t \in {"undef", "null"} -> FALSE
    [] v.t = "str" -> v.s # ""
    [] v.t = "txt" -> v.c # <<>>
    [] v.t = "num" -> v.n # 0
    [] OTHER -> TRUE

\* a || b
Or(a, b) == IF Truthy(a) THEN a ELSE b

\* a ?? b
Coalesce(a, b) == IF a.t \in {"undef", "null"} THEN b ELSE a

\* typeof v === "string"
IsString(v) == v.t \in {"str", "txt"}

\* typeof v === "number"
IsNumber(v) == v.t = "num"

\* Array.isArray(v)
IsArray(v) == v.t = "arr"

\* v.text of a value that is not undefined/null (a string has no text property)
TextOf(v) == IF v.t = "nv" THEN v.text ELSE Undef

\* U+00A0, the non-breaking space
Nbsp == " "

\* String.prototype.trim over a sequence of characters; the white space of
\* trim and of \s
IsSpace(ch) == ch \in {" ", "\t", "\n", "\r", Nbsp}

RECURSIVE TrimStart(_)
TrimStart(c) ==
  IF c # <<>> /\ IsSpace(Head(c)) THEN TrimStart(Tail(c)) ELSE c

RECURSIVE TrimEnd(_)
TrimEnd(c) ==
  IF c # <<>> /\ IsSpace(c[Len(c)]) THEN TrimEnd(SubSeq(c, 1, Len(c) - 1))
  ELSE c

Trim(c) == TrimEnd(TrimStart(c))

---------------------------------------------------------------------------
(* src/unnamed/part_000: helpers *)

nvText(nv) ==
  IF ~Truthy(nv) THEN Null
  ELSE IF IsString(nv) THEN nv
  ELSE IF IsString(TextOf(nv)) THEN TextOf(nv)
  ELSE Null

\* a buggy variant of entityValue: the raw mention is tried first
entityValue_mentionFirst(e) ==
  IF ~Truthy(e) THEN Null
  ELSE Or(Or(e.mentionText, nvText(e.normalizedValue)), Null)

\* a buggy variant of entityValue: without the closing "|| null"
entityValue_undefined(e) ==
  IF ~Truthy(e) THEN Null
  ELSE Or(nvText(e.normalizedValue), e.mentionText)

entityValue(e) ==
  IF ~Truthy(e) THEN Null
  ELSE Or(Or(nvText(e.normalizedValue), e.mentionText), Null)

\* a buggy variant of OrEmpty: the list as it comes
OrEmpty_unguarded(list) == list

\* (list || [])
OrEmpty(list) == IF Truthy(list) THEN list ELSE Arr(<<>>)

\* the comparator's key: (e.confidence ?? 0)
RankKey(e) == Coalesce(e.confidence, Num(0))

\* the comparator (a, b) => key(b) - key(a) as sort reads it: a difference
\* that is not a number (a key that is neither a number nor null) counts
\* as 0.  The lists of the specifications never set such a key against a
\* different one, so the order the sort gives is always determined.
SortCompare(a, b) ==
  IF IsNumber(RankKey(a)) /\ IsNumber(RankKey(b))
  THEN RankKey(b).n - RankKey(a).n
  ELSE 0

\* Array.prototype.sort with that comparator: stable, descending
RECURSIVE SortByConfidenceDesc(_)
SortByConfidenceDesc(s) ==
  IF Len(s) <= 1 THEN s
  ELSE LET front == SortByConfidenceDesc(SubSeq(s, 1, Len(s) - 1))
           x == s[Len(s)]
       IN SelectSeq(front, LAMBDA y : SortCompare(y, x) <= 0)
            \o <<x>>
            \o SelectSeq(front, LAMBDA y : SortCompare(y, x) > 0)

\* a buggy variant of InputAfterSelection: the sort works on the input
InputAfterSelection_sortedInPlace(list) ==
  IF IsArray(list) THEN Arr(SortByConfidenceDesc(list.a)) ELSE list

\* the caller's list after bestEntity: filter builds a new array and sort
\* works on that array, so the input keeps its elements and their order
InputAfterSelection(list) == list

\* a buggy variant of BestOfHits: the sort is left out
BestOfHits_unsorted(hits) == hits[1]

\* hits.sort(...); return hits[0]  (hits is not empty)
BestOfHits(hits) == SortByConfidenceDesc(hits)[1]

bestEntity(list, type) ==
  LET arr == OrEmpty(list)
  IN IF ~IsArray(arr) THEN Thrown   \* .filter of a non-array: TypeError
     ELSE LET hits == SelectSeq(arr.a, LAMBDA e : e.type = type)
          IN IF Len(hits) = 0 THEN Null ELSE BestOfHits(hits)

\* e?.confidence
OptConfidence(e) == IF e.t \in {"undef", "null"} THEN Undef ELSE e.confidence

\* a buggy variant of pick: the confidence as it is ranked
pick_asRanked(list, type) ==
  LET e == bestEntity(list, type)
  IN IF e = Thrown THEN Thrown
     ELSE [value |-> entityValue(e),
           confidence |-> IF Truthy(e) THEN RankKey(e) ELSE Null]

pick(list, type) ==
  LET e == bestEntity(list, type)
  IN IF e = Thrown THEN Thrown
     ELSE [value |-> entityValue(e),
           confidence |-> IF IsNumber(OptConfidence(e)) THEN OptConfidence(e)
                          ELSE Null]

\* `${prefix}.${e.type || "unknown"}` or, at the root, (e.type || "unknown")
DottedType(prefix, e) ==
  IF prefix # "" THEN prefix \o "." \o Or(e.type, Str("unknown")).s
  ELSE Or(e.type, Str("unknown")).s

FlatEntity(type, e) ==
  [t |-> "flat",
   type |-> Str(type),
   mentionText |-> Or(e.mentionText, Null),
   normalizedText |-> nvText(e.normalizedValue),
   confidence |-> IF IsNumber(e.confidence) THEN e.confidence ELSE Null,
   ref |-> e]

\* a buggy variant of FlattenSeq: the properties of an entity come after
\* the entities that follow it
RECURSIVE FlattenSeq_siblingsFirst(_, _)
FlattenSeq_siblingsFirst(a, prefix) ==
  IF a = <<>> THEN <<>>
  ELSE LET e == Head(a)
           type == DottedType(prefix, e)
           below == IF IsArray(e.properties) /\ Len(e.properties.a) > 0
                    THEN FlattenSeq_siblingsFirst(e.properties.a, type)
                    ELSE <<>>
       IN <<FlatEntity(type, e)>> \o FlattenSeq_siblingsFirst(Tail(a), prefix)
            \o below

\* the body of flattenEntities over the array a: one record per entity,
\* followed at once by the records of its properties
RECURSIVE FlattenSeq(_, _)
FlattenSeq(a, prefix) ==
  IF a = <<>> THEN <<>>
  ELSE LET e == Head(a)
           type == DottedType(prefix, e)
           below == IF IsArray(e.properties) /\ Len(e.properties.a) > 0
                    THEN FlattenSeq(e.properties.a, type)
                    ELSE <<>>
       IN <<FlatEntity(type, e)>> \o below \o FlattenSeq(Tail(a), prefix)

flattenEntities(ents, prefix) ==
  LET arr == OrEmpty(ents)
  IN IF ~IsArray(arr) THEN Thrown   \* for..of over a non-iterable: TypeError
     ELSE Arr(FlattenSeq(arr.a, prefix))

\* a buggy variant of NonBlank: the trim test is left out
NonBlank_notNull(v) == v.t \notin {"null", "undef"}

\* value !== null && value !== undefined && String(value).trim() !== ""
NonBlank(v) == v.t \notin {"null", "undef"} /\ Trim(v.c) # <<>>

\* the fallback of getFromGroupOrFlat: flat path "Group.field"
FlatLookup(ents, groupType, fieldType) ==
  LET flat == flattenEntities(ents, "")
  IN IF flat = Thrown THEN Thrown
     ELSE LET hits == SelectSeq(flat.a,
                        LAMBDA x : x.type = Str(groupType.s \o "." \o fieldType.s))
              hit == IF Len(hits) = 0 THEN Undef
                     ELSE SortByConfidenceDesc(hits)[1]
          IN IF Truthy(hit) THEN Or(hit.normalizedText, hit.mentionText)
             ELSE Null

getFromGroupOrFlat(ents, groupType, fieldType) ==
  LET group == bestEntity(ents, groupType)
  IN IF group = Thrown THEN Thrown
     ELSE IF Truthy(group) /\ IsArray(group.properties)
     THEN LET within == pick(group.properties, fieldType)
          IN IF within = Thrown THEN Thrown
             ELSE IF NonBlank(within.value) THEN within.value
             ELSE FlatLookup(ents, groupType, fieldType)
     ELSE FlatLookup(ents, groupType, fieldType)

Range(f) == {f[i] : i \in DOMAIN f}

\* const props = Array.isArray(g.properties) ? g.properties : []
PropsOf(g) == IF IsArray(g.properties) THEN g.properties ELSE Arr(<<>>)

\* pick(...).value
ValueOf(picked) == IF picked = Thrown THEN Thrown ELSE picked.value

\* obj = {}; for (const f of schemaFields) obj[f] = pick(props, f).value
GroupItem(g, schemaFields) ==
  [f \in Range(schemaFields) |-> ValueOf(pick(PropsOf(g), Str(f)))]

\* a buggy variant of getRepeatedGroupItems: the groups in ranking order
getRepeatedGroupItems_ranked(ents, groupType, schemaFields) ==
  LET arr == OrEmpty(ents)
  IN IF ~IsArray(arr) THEN Thrown
     ELSE LET groups == SortByConfidenceDesc(
                          SelectSeq(arr.a, LAMBDA e : e.type = groupType))
          IN IF Len(groups) = 0 THEN Arr(<<>>)
             ELSE Arr([i \in 1..Len(groups) |-> GroupItem(groups[i], schemaFields)])

getRepeatedGroupItems(ents, groupType, schemaFields) ==
  LET arr == OrEmpty(ents)
  IN IF ~IsArray(arr) THEN Thrown
     ELSE LET groups == SelectSeq(arr.a, LAMBDA e : e.type = groupType)
          IN IF Len(groups) = 0 THEN Arr(<<>>)
             ELSE Arr([i \in 1..Len(groups) |-> GroupItem(groups[i], schemaFields)])

---------------------------------------------------------------------------
(* src/unnamed/part_000: POST /process-invoice, from the extractor's answer on *)

MeterFields ==
  <<"meter_number", "meter_adress", "grid_area", "facility_id",
    "consumption_kwh", "estimated_annual_kwh", "period_from", "period_to">>

ServiceFields == <<"service_name", "service_amount", "service_vat">>

\* const data = {...}
InvoiceData(ents) ==
  [invoice_number |-> ValueOf(pick(ents, Str("invoice_number"))),
   invoice_date |-> ValueOf(pick(ents, Str("invoice_date"))),
   due_date |-> ValueOf(pick(ents, Str("due_date"))),
   net_amount |-> ValueOf(pick(ents, Str("net_amount"))),
   vat_amount |-> ValueOf(pick(ents, Str("vat_amount"))),
   total_amount |-> ValueOf(pick(ents, Str("total_amount"))),
   Supplier |->
     [f \in {"Suppli_name", "Supplier_address", "supplier_email",
             "Supplier_orgnr", "Supplier_phone"} |->
        getFromGroupOrFlat(ents, Str("Supplier"), Str(f))],
   Reciever |->
     [f \in {"reciever_name", "reciever_address"} |->
        getFromGroupOrFlat(ents, Str("Reciever"), Str(f))],
   Meter |-> getRepeatedGroupItems(ents, Str("Meter"), MeterFields),
   Agreement |->
     [f \in {"agreement_name", "agreement_type", "fixed_fee", "markup_ore",
             "spot_price_ore"} |->
        getFromGroupOrFlat(ents, Str("Agreement"), Str(f))],
   Additional_service |->
     getRepeatedGroupItems(ents, Str("Additional_service"), ServiceFields)]

ScalarFields ==
  {"invoice_number", "invoice_date", "due_date", "net_amount", "vat_amount",
   "total_amount"}

SingleGroups == {"Supplier", "Reciever", "Agreement"}

RepeatedGroups == {"Meter", "Additional_service"}

\* some step of the assembly raised: the handler's catch answers 500
AssemblyThrew(data) ==
  \/ \E k \in ScalarFields : data[k] = Thrown
  \/ \E g \in SingleGroups : \E f \in DOMAIN data[g] : data[g][f] = Thrown
  \/ \E g \in RepeatedGroups :
       \/ data[g] = Thrown
       \/ \E i \in DOMAIN data[g].a : \E f \in DOMAIN data[g].a[i] :
            data[g].a[i][f] = Thrown

\* raw_entities: the flattened view without the references
RawEntities(ents) ==
  LET flat == flattenEntities(ents, "")
  IN IF flat = Thrown THEN Thrown
     ELSE Arr([i \in 1..Len(flat.a) |->
                 [type |-> flat.a[i].type,
                  value |-> Or(flat.a[i].normalizedText, flat.a[i].mentionText),
                  confidence |-> flat.a[i].confidence]])

\* docEntities is doc.entities
processInvoice(docEntities) ==
  LET ents == IF IsArray(docEntities) THEN docEntities ELSE Arr(<<>>)
      data == InvoiceData(ents)
  IN IF AssemblyThrew(data) \/ RawEntities(ents) = Thrown
     THEN [status |-> 500]
     ELSE [status |-> 200, ok |-> TRUE, data |-> data,
           raw_entities |-> RawEntities(ents),
           entities_count |-> Len(ents.a)]

---------------------------------------------------------------------------
(* src/server.js: helpers *)

\* one mapped property of normalizeEntities
NormProperty(p) ==
  Entity(Or(p.type, Null), Or(p.mentionText, Null), Or(p.normalizedValue, Null),
         IF IsNumber(p.confidence) THEN p.confidence ELSE Null,
         IF IsArray(p.properties) THEN p.properties ELSE Arr(<<>>))

\* one mapped entity of normalizeEntities
NormEntity(e) ==
  Entity(Or(e.type, Null), Or(e.mentionText, Null), Or(e.normalizedValue, Null),
         IF IsNumber(e.confidence) THEN e.confidence ELSE Null,
         IF IsArray(e.properties)
         THEN Arr([i \in 1..Len(e.properties.a) |-> NormProperty(e.properties.a[i])])
         ELSE Arr(<<>>))

\* docEntities is doc?.entities
normalizeEntities(docEntities) ==
  LET ents == IF IsArray(docEntities) THEN docEntities ELSE Arr(<<>>)
  IN Arr([i \in 1..Len(ents.a) |-> NormEntity(ents.a[i])])

srv_bestEntity(ents, type) ==
  IF ~IsArray(ents) THEN Thrown   \* entities.filter of a non-array: TypeError
  ELSE LET hits == SelectSeq(ents.a, LAMBDA e : e.type = type)
       IN IF Len(hits) = 0 THEN Null ELSE SortByConfidenceDesc(hits)[1]

srv_entityValue(e) ==
  IF ~Truthy(e) THEN Null
  ELSE IF Truthy(e.normalizedValue) /\ IsString(e.normalizedValue)
  THEN e.normalizedValue
  ELSE IF Truthy(e.normalizedValue) /\ IsString(TextOf(e.normalizedValue))
  THEN TextOf(e.normalizedValue)
  ELSE Coalesce(e.mentionText, Null)

field(ents, type) ==
  LET e == srv_bestEntity(ents, type)
  IN IF e = Thrown THEN Thrown
     ELSE [value |-> srv_entityValue(e),
           confidence |-> Coalesce(OptConfidence(e), Null)]

---------------------------------------------------------------------------
(* Regular-expression matching over a sequence of characters *)

UpperChars ==
  <<"A", "B", "C", "D", "E", "F", "G", "H", "I", "J", "K", "L", "M", "N",
    "O", "P", "Q", "R", "S", "T", "U", "V", "W", "X", "Y", "Z", "Æ", "Ø",
    "Å">>

LowerChars ==
  <<"a", "b", "c", "d", "e", "f", "g", "h", "i", "j", "k", "l", "m", "n",
    "o", "p", "q", "r", "s", "t", "u", "v", "w", "x", "y", "z", "æ", "ø",
    "å">>

\* the /i flag: characters are compared after case folding
Fold(ch) ==
  IF \E k \in DOMAIN UpperChars : UpperChars[k] = ch
  THEN LowerChars[CHOOSE k \in DOMAIN UpperChars : UpperChars[k] = ch]
  ELSE ch

\* \d
IsDigit(ch) == ch \in {"0", "1", "2", "3", "4", "5", "6", "7", "8", "9"}

\* \w: [A-Za-z0-9_]; the letters beyond ASCII are not word characters
IsWordChar(ch) ==
  \/ IsDigit(ch)
  \/ ch = "_"
  \/ \E k \in 1..26 : ch = UpperChars[k] \/ ch = LowerChars[k]

\* the lower-case literal lit stands at position i of c, case folded
LitAt(c, i, lit) ==
  /\ i >= 1
  /\ i + Len(lit) - 1 <= Len(c)
  /\ \A k \in 1..Len(lit) : Fold(c[i + k - 1]) = lit[k]

\* \s* from position i: the first position at or after i that holds no
\* white space (Len(c) + 1 at the end)
RECURSIVE SkipSpaces(_, _)
SkipSpaces(c, i) ==
  IF i <= Len(c) /\ IsSpace(c[i]) THEN SkipSpaces(c, i + 1) ELSE i

Min(a, b) == IF a <= b THEN a ELSE b

---------------------------------------------------------------------------
(* src/server.js: extractMeterNumberFromText *)

IsMeterDigitOrSep(ch) == IsDigit(ch) \/ ch \in {" ", "-"}

\* [0-9 \-]* from position i: the length of the longest run
RECURSIVE MeterRun(_, _)
MeterRun(c, i) ==
  IF i <= Len(c) /\ IsMeterDigitOrSep(c[i]) THEN 1 + MeterRun(c, i + 1) ELSE 0

\* \.?\s*[:\-]?\s*([0-9][0-9 \-]{7,30}) from position i: the capture, or
\* <<>> when the tail does not match there
MeterTail(c, i) ==
  LET i1 == IF i <= Len(c) /\ c[i] = "." THEN i + 1 ELSE i
      i2 == SkipSpaces(c, i1)
      i3 == IF i2 <= Len(c) /\ c[i2] \in {":", "-"} THEN i2 + 1 ELSE i2
      i4 == SkipSpaces(c, i3)
      run == IF i4 <= Len(c) /\ IsDigit(c[i4])
             THEN MeterRun(c, i4 + 1) ELSE 0
  IN IF i4 <= Len(c) /\ IsDigit(c[i4]) /\ run >= 7
     THEN SubSeq(c, i4, i4 + Min(run, 30))
     ELSE <<>>

\* where the label of pattern k ends when it stands at position p (the
\* position after it), or 0
MeterLabelEnd(c, p, k) ==
  IF k = 1
  THEN IF LitAt(c, p, <<"m", "å", "l", "e", "r", "n", "u", "m", "m", "e", "r">>)
       THEN p + 11
       ELSE IF LitAt(c, p, <<"m", "å", "l", "e", "r", "n", "r">>) THEN p + 7
       ELSE 0
  ELSE IF k = 2
  THEN IF LitAt(c, p, <<"m", "å", "l", "e", "r">>)
          /\ LitAt(c, SkipSpaces(c, p + 5), <<"i", "d">>)
       THEN SkipSpaces(c, p + 5) + 2
       ELSE 0
  ELSE IF ~LitAt(c, p, <<"m", "e", "t", "e", "r">>) THEN 0
       ELSE LET q == SkipSpaces(c, p + 5)
            IN IF LitAt(c, q, <<"n", "u", "m", "b", "e", "r">>) THEN q + 6
               ELSE IF LitAt(c, q, <<"n", "o">>) THEN q + 2
               ELSE IF LitAt(c, q, <<"i", "d">>) THEN q + 2
               ELSE 0

\* m[1] of text.match(patterns[k]): the capture of the leftmost match, or <<>>
MeterCapture(c, k) ==
  LET starts == {p \in 1..Len(c) :
                   /\ MeterLabelEnd(c, p, k) # 0
                   /\ MeterTail(c, MeterLabelEnd(c, p, k)) # <<>>}
  IN IF starts = {} THEN <<>>
     ELSE LET p == CHOOSE q \in starts : \A r \in starts : q <= r
          IN MeterTail(c, MeterLabelEnd(c, p, k))

IsSpaceOrDash(ch) == ch \in {" ", "-"}

\* the loop over the patterns from pattern k on
RECURSIVE MeterFromPattern(_, _)
MeterFromPattern(c, k) ==
  IF k > 3 THEN Null
  ELSE LET cleaned == SelectSeq(MeterCapture(c, k), LAMBDA ch : ~IsSpaceOrDash(ch))
       IN IF MeterCapture(c, k) # <<>> /\ Len(cleaned) >= 8 THEN Txt(cleaned)
          ELSE MeterFromPattern(c, k + 1)

extractMeterNumberFromText(docText) ==
  IF ~Truthy(docText) \/ ~IsString(docText) THEN Null
  ELSE MeterFromPattern(docText.c, 1)

---------------------------------------------------------------------------
(* src/server.js: extractLineItems, buildInvoice, POST /process-invoice *)

\* props.find((p) => p.type === t) || null
FindProp(props, type) ==
  LET hits == SelectSeq(props.a, LAMBDA q : q.type = type)
  IN IF Len(hits) = 0 THEN Null ELSE hits[1]

pickProp(props, type) ==
  [value |-> srv_entityValue(FindProp(props, type)),
   confidence |-> Coalesce(OptConfidence(FindProp(props, type)), Null)]

LineItem(li) ==
  LET props == IF IsArray(li.properties) THEN li.properties ELSE Arr(<<>>)
  IN [description |-> pickProp(props, Str("description")),
      quantity |-> pickProp(props, Str("quantity")),
      unit_price |-> pickProp(props, Str("unit_price")),
      amount |-> pickProp(props, Str("amount")),
      product_code |-> pickProp(props, Str("product_code")),
      tax_amount |-> pickProp(props, Str("tax_amount")),
      tax_rate |-> pickProp(props, Str("tax_rate")),
      confidence |-> Coalesce(li.confidence, Null)]

srv_extractLineItems(ents) ==
  LET lineEntities == SelectSeq(ents.a, LAMBDA e : e.type = Str("line_item"))
  IN Arr([i \in 1..Len(lineEntities) |-> LineItem(lineEntities[i])])

\* const invoice = {...}
Invoice(ents, docText) ==
  [invoice_id |-> field(ents, Str("invoice_id")),
   invoice_date |-> field(ents, Str("invoice_date")),
   due_date |-> field(ents, Str("due_date")),
   supplier_name |-> field(ents, Str("supplier_name")),
   supplier_address |-> field(ents, Str("supplier_address")),
   supplier_organization_id |-> field(ents, Str("supplier_organization_id")),
   buyer_name |-> field(ents, Str("buyer_name")),
   buyer_address |-> field(ents, Str("buyer_address")),
   currency |-> field(ents, Str("currency")),
   net_amount |-> field(ents, Str("net_amount")),
   total_tax_amount |-> field(ents, Str("total_tax_amount")),
   total_amount |-> field(ents, Str("total_amount")),
   iban |-> field(ents, Str("iban")),
   bank_account_number |-> field(ents, Str("bank_account_number")),
   swift |-> field(ents, Str("swift")),
   payment_reference |-> field(ents, Str("payment_reference")),
   meter_number |-> [value |-> extractMeterNumberFromText(docText),
                     confidence |-> Null,
                     source |-> "regex_doc_text"]]

mustHave == <<"invoice_id", "invoice_date", "total_amount", "supplier_name">>

\* the threshold 0.6, in tenths
LowConfidence == 6

\* a buggy variant of ReviewFlag: a confidence at the threshold is flagged too
ReviewFlag_atThreshold(invoice, k) ==
  IF ~Truthy(invoice[k].value)
  THEN <<[field |-> k, reason |-> "missing"]>>
  ELSE IF IsNumber(invoice[k].confidence) /\ invoice[k].confidence.n <= LowConfidence
  THEN <<[field |-> k, reason |-> "low_confidence",
          confidence |-> invoice[k].confidence]>>
  ELSE <<>>

\* one turn of the loop over mustHave: what is pushed for field k
ReviewFlag(invoice, k) ==
  IF ~Truthy(invoice[k].value)
  THEN <<[field |-> k, reason |-> "missing"]>>
  ELSE IF IsNumber(invoice[k].confidence) /\ invoice[k].confidence.n < LowConfidence
  THEN <<[field |-> k, reason |-> "low_confidence",
          confidence |-> invoice[k].confidence]>>
  ELSE <<>>

\* the loop over mustHave from position i on, needsReview being the array so far
RECURSIVE ReviewLoop(_, _, _)
ReviewLoop(invoice, i, needsReview) ==
  IF i > Len(mustHave) THEN needsReview
  ELSE ReviewLoop(invoice, i + 1, needsReview \o ReviewFlag(invoice, mustHave[i]))


\* a buggy variant of NewReviewList: one array at module level, shared by
\* all requests
NewReviewList_shared(h) == h.needs_review

\* const needsReview = []: a fresh array in every call, whatever the
\* process holds (h)
NewReviewList(h) == <<>>

\* the return value: { invoice, needs_review: needsReview }
Built(invoice, h) ==
  [invoice |-> invoice, needs_review |-> ReviewLoop(invoice, 1, NewReviewList(h))]

buildInvoice(ents, docText, h) == Built(Invoice(ents, docText), h)

\* POST /process-invoice of server.js once the extractor has answered with
\* doc = {entities: docEntities, text: docTextRaw}; h is what the process
\* holds, requestId the UUID drawn for the request
srvProcessInvoice(docEntities, docTextRaw, h, requestId) ==
  LET ents == normalizeEntities(docEntities)
      docText == Or(docTextRaw, Txt(<<>>))
      built == buildInvoice(ents, docText, h)
  IN [ok |-> TRUE,
      debug |-> [requestId |-> requestId,
                 text_length |-> Len(docText.c),
                 entities_count |-> Len(ents.a),
                 line_items_count |-> Len(srv_extractLineItems(ents).a)],
      invoice |-> built.invoice,
      line_items |-> srv_extractLineItems(ents),
      needs_review |-> built.needs_review]

---------------------------------------------------------------------------
(* Inputs *)

NoCall == [op |-> "none"]

\* what the server process holds when it starts: no extractor client yet
\* (server.js: let _client = null), and no array left by an earlier request
Started == [client |-> Null, needs_review |-> <<>>]

\* crypto.randomUUID()
RequestIds == {"uuid1", "uuid2"}

Supplier == Str("Supplier")
SuppliName == Str("Suppli_name")
SupplierAddress == Str("Supplier_address")
Meter == Str("Meter")
MeterNumber == Str("meter_number")

\* the array behind an entity-list argument that may be absent
ListOf(v) == IF IsArray(v) THEN v.a ELSE <<>>

\* the confidence an entity is ranked by: a missing one counts as 0
RankingConfidence(e) == IF e.confidence.t = "num" THEN e.confidence.n ELSE 0

Confidences == {Undef, Num(0), Num(4), Num(9)}

F == Str("F")
G == Str("G")
X == Str("X")

BestPool ==
  {Entity(ty, Txt(<<m>>), Undef, cf, Undef) :
     ty \in {F, X}, m \in {"a", "b"}, cf \in Confidences}

---------------------------------------------------------------------------
(* Specification of the selection helpers over a flat list *)

InitBest ==
  /\ entities \in {Undef} \cup {Arr(s) : s \in SeqsUpTo(BestPool, MaxList)}
  /\ text = Txt(<<>>)
  /\ call = NoCall
  /\ ret = Undef
  /\ heap = Started
  /\ log = <<>>

\* part_000: bestEntity(entities, type)
CallBestEntity ==
  \E type \in {F, X, Supplier} :
    /\ call = NoCall
    /\ call' = [op |-> "bestEntity", list |-> entities, type |-> type,
                after |-> InputAfterSelection(entities)]
    /\ ret' = bestEntity(entities, type)
    /\ entities' = call'.after
    /\ UNCHANGED <<text, heap, log>>

\* server.js: bestEntity(entities, type) on the output of normalizeEntities
CallSrvBestEntity ==
  \E type \in {F, X, G} :
    /\ call = NoCall
    /\ call' = [op |-> "srv_bestEntity", list |-> normalizeEntities(entities),
                type |-> type,
                after |-> InputAfterSelection(normalizeEntities(entities))]
    /\ ret' = srv_bestEntity(normalizeEntities(entities), type)
    /\ UNCHANGED <<entities, text, heap, log>>

NextBest == CallBestEntity \/ CallSrvBestEntity

SpecBest == InitBest /\ [][NextBest]_vars

\* C1: bestEntity(L, t) returns null when no entity of L has type t; otherwise
\* it returns an entity of L of type t whose ranking confidence (a missing
\* confidence counts as 0) is at least that of every entity of L of type t.
C1_BestEntityIsTopRanked ==
  call.op \in {"bestEntity", "srv_bestEntity"} =>
    LET L == ListOf(call.list)
        matching == {i \in 1..Len(L) : L[i].type = call.type}
    IN IF matching = {} THEN ret = Null
       ELSE \E i \in matching :
              /\ ret = L[i]
              /\ \A j \in matching :
                   RankingConfidence(L[j]) <= RankingConfidence(L[i])

\* a later entity of the type outranks an earlier one, another one has no
\* confidence, and the later one is returned
C1_Witness ==
  /\ call.op = "bestEntity"
  /\ LET L == ListOf(call.list)
     IN /\ Len(L) = 3
        /\ L[1].type = call.type /\ L[1].confidence = Num(4)
        /\ L[2].type = call.type /\ L[2].confidence = Undef
        /\ L[3].type = call.type /\ L[3].confidence = Num(9)
        /\ ret = L[3]

---------------------------------------------------------------------------
(* src/unnamed/part_001: entity helpers *)

\* typeof v === "object" (of a truthy value)
IsObject(v) == v.t \in {"nv", "ent", "arr"}

entityText(e) ==
  IF ~Truthy(e) THEN Null
  ELSE IF Truthy(e.normalizedValue) /\ IsObject(e.normalizedValue)
          /\ IsString(TextOf(e.normalizedValue))
  THEN Txt(Trim(TextOf(e.normalizedValue).c))
  ELSE Or(Txt(Trim(Or(e.mentionText, Txt(<<>>)).c)), Null)

---------------------------------------------------------------------------
(* src/unnamed/part_001: toIsoDate, firstMatch, extractInvoiceDate *)

\* n characters of c from position i on, all of them digits
DigitsAt(c, i, n) ==
  /\ i >= 1
  /\ i + n - 1 <= Len(c)
  /\ \A k \in i..(i + n - 1) : IsDigit(c[k])

\* [.\-/]
IsDateSep(ch) == ch \in {".", "-", "/"}

\* /(\d{4})-(\d{2})-(\d{2})/ matches at position p
IsoAt(c, p) ==
  /\ p + 9 <= Len(c)
  /\ DigitsAt(c, p, 4)
  /\ c[p + 4] = "-"
  /\ DigitsAt(c, p + 5, 2)
  /\ c[p + 7] = "-"
  /\ DigitsAt(c, p + 8, 2)

\* the lengths <<day, month>> that \d{1,2} ... \d{1,2} tries, in the order
\* of the greedy search
DmySplits == <<(<<2, 2>>), (<<2, 1>>), (<<1, 2>>), (<<1, 1>>)>>

\* /(\d{1,2})[.\-/](\d{1,2})[.\-/](\d{4})/ matches at position p with a
\* day of dl and a month of ml digits
DmyFits(c, p, dl, ml) ==
  /\ p + dl + ml + 5 <= Len(c)
  /\ DigitsAt(c, p, dl)
  /\ IsDateSep(c[p + dl])
  /\ DigitsAt(c, p + dl + 1, ml)
  /\ IsDateSep(c[p + dl + ml + 1])
  /\ DigitsAt(c, p + dl + ml + 2, 4)

\* the match of the day-month-year pattern at position p: <<dl, ml>>, or
\* <<>> when there is none
DmyAt(c, p) ==
  LET fits == {k \in DOMAIN DmySplits :
                 DmyFits(c, p, DmySplits[k][1], DmySplits[k][2])}
  IN IF fits = {} THEN <<>>
     ELSE DmySplits[CHOOSE k \in fits : \A j \in fits : k <= j]

\* the least position of a non-empty set of positions: the leftmost match
Leftmost(starts) == CHOOSE p \in starts : \A q \in starts : p <= q

\* a buggy variant of padStart2: no padding
padStart2_none(x) == x

\* String(x).padStart(2, "0") of one or two characters
padStart2(x) == IF Len(x) < 2 THEN <<"0">> \o x ELSE x

toIsoDate(s) ==
  IF ~Truthy(s) THEN Null
  ELSE LET c == s.c
           iso == {p \in 1..Len(c) : IsoAt(c, p)}
           dmy == {p \in 1..Len(c) : DmyAt(c, p) # <<>>}
       IN IF iso # {}
          THEN LET p == Leftmost(iso)
               IN Txt(SubSeq(c, p, p + 3) \o <<"-">> \o SubSeq(c, p + 5, p + 6)
                        \o <<"-">> \o SubSeq(c, p + 8, p + 9))
          ELSE IF dmy # {}
          THEN LET p == Leftmost(dmy)
                   dl == DmyAt(c, p)[1]
                   ml == DmyAt(c, p)[2]
                   dd == padStart2(SubSeq(c, p, p + dl - 1))
                   mm == padStart2(SubSeq(c, p + dl + 1, p + dl + ml))
                   yyyy == SubSeq(c, p + dl + ml + 2, p + dl + ml + 5)
               IN Txt(yyyy \o <<"-">> \o mm \o <<"-">> \o dd)
          ELSE Null

\* bestEntity(doc, type), docEntities being doc?.entities
doc_bestEntity(docEntities, type) ==
  LET ents == IF IsArray(docEntities) THEN docEntities ELSE Arr(<<>>)
      hits == SelectSeq(ents.a, LAMBDA e : e.type = type)
  IN IF Len(hits) = 0 THEN Null ELSE BestOfHits(hits)

\* part_001: bestEntity(doc, type) with doc.entities = entities
CallDocBestEntity ==
  \E type \in {F, X, G} :
    /\ call = NoCall
    /\ call' = [op |-> "doc_bestEntity", list |-> entities, type |-> type,
                after |-> InputAfterSelection(entities)]
    /\ ret' = doc_bestEntity(entities, type)
    /\ entities' = call'.after
    /\ UNCHANGED <<text, heap, log>>

NextTie == CallBestEntity \/ CallSrvBestEntity \/ CallDocBestEntity

SpecTie == InitBest /\ [][NextTie]_vars

\* where the label of the k-th pattern of extractInvoiceDate ends when it
\* stands at position p (the position after it), or 0
DateLabelEnd(c, p, k) ==
  IF k \in {1, 2}
  THEN IF LitAt(c, p, <<"f", "a", "k", "t", "u", "r", "a", "d", "a", "t", "o">>)
       THEN p + 11 ELSE 0
  ELSE IF LitAt(c, p, <<"d", "a", "t", "o">>) THEN p + 4 ELSE 0

\* \s*[:\-]?\s* from position i: where the capture has to start
DateTailStart(c, i) ==
  LET i2 == SkipSpaces(c, i)
      i3 == IF i2 <= Len(c) /\ c[i2] \in {":", "-"} THEN i2 + 1 ELSE i2
  IN SkipSpaces(c, i3)

\* the capture of the k-th pattern when its label stands at position p:
\* day-month-year for the first and the third pattern, year-month-day for
\* the second; <<>> when the pattern does not match there
DateCaptureAt(c, p, k) ==
  IF DateLabelEnd(c, p, k) = 0 THEN <<>>
  ELSE LET q == DateTailStart(c, DateLabelEnd(c, p, k))
       IN IF k = 2
          THEN IF IsoAt(c, q) THEN SubSeq(c, q, q + 9) ELSE <<>>
          ELSE IF DmyAt(c, q) = <<>> THEN <<>>
          ELSE SubSeq(c, q, q + DmyAt(c, q)[1] + DmyAt(c, q)[2] + 5)

\* firstMatch(text, patterns) from the k-th pattern of extractInvoiceDate on
RECURSIVE DateFirstMatch(_, _)
DateFirstMatch(c, k) ==
  IF k > 3 THEN Null
  ELSE LET starts == {p \in 1..Len(c) : DateCaptureAt(c, p, k) # <<>>}
       IN IF starts # {}
          THEN Txt(Trim(DateCaptureAt(c, Leftmost(starts), k)))
          ELSE DateFirstMatch(c, k + 1)

extractInvoiceDate(docEntities, txt) ==
  LET fromAi == entityText(doc_bestEntity(docEntities, Str("invoice_date")))
      isoAi == toIsoDate(fromAi)
  IN IF Truthy(isoAi) THEN isoAi
     ELSE toIsoDate(DateFirstMatch(txt.c, 1))

---------------------------------------------------------------------------
(* src/unnamed/part_001: normalizeText, cleanSpaces, extractLineItems *)

\* .replace(/\r\n/g, "\n")
RECURSIVE ReplaceCrLf(_)
ReplaceCrLf(c) ==
  IF c = <<>> THEN <<>>
  ELSE IF Len(c) >= 2 /\ c[1] = "\r" /\ c[2] = "\n"
  THEN <<"\n">> \o ReplaceCrLf(SubSeq(c, 3, Len(c)))
  ELSE <<c[1]>> \o ReplaceCrLf(Tail(c))

\* .replace(/\u00A0/g, " ")
ReplaceNbsp(c) == [i \in DOMAIN c |-> IF c[i] = Nbsp THEN " " ELSE c[i]]

\* [ \t]
IsBlank(ch) == ch \in {" ", "\t"}

\* the length of the run of blanks at the head of c
RECURSIVE BlankRun(_)
BlankRun(c) ==
  IF c # <<>> /\ IsBlank(c[1]) THEN 1 + BlankRun(Tail(c)) ELSE 0

\* .replace(/[ \t]+\n/g, "\n"): a run of blanks goes when a newline follows
RECURSIVE StripBlanksBeforeNewline(_)
StripBlanksBeforeNewline(c) ==
  IF c = <<>> THEN <<>>
  ELSE IF IsBlank(c[1])
  THEN LET n == BlankRun(c)
       IN IF n < Len(c) /\ c[n + 1] = "\n"
          THEN StripBlanksBeforeNewline(SubSeq(c, n + 1, Len(c)))
          ELSE SubSeq(c, 1, n) \o StripBlanksBeforeNewline(SubSeq(c, n + 1, Len(c)))
  ELSE <<c[1]>> \o StripBlanksBeforeNewline(Tail(c))

\* the length of the run of newlines at the head of c
RECURSIVE NewlineRun(_)
NewlineRun(c) ==
  IF c # <<>> /\ c[1] = "\n" THEN 1 + NewlineRun(Tail(c)) ELSE 0

\* .replace(/\n{3,}/g, "\n\n")
RECURSIVE CollapseNewlines(_)
CollapseNewlines(c) ==
  IF c = <<>> THEN <<>>
  ELSE IF c[1] = "\n"
  THEN LET n == NewlineRun(c)
       IN (IF n >= 3 THEN <<"\n", "\n">> ELSE SubSeq(c, 1, n))
            \o CollapseNewlines(SubSeq(c, n + 1, Len(c)))
  ELSE <<c[1]>> \o CollapseNewlines(Tail(c))

\* the characters of String(t || "")
normalizeText(t) ==
  CollapseNewlines(StripBlanksBeforeNewline(ReplaceNbsp(ReplaceCrLf(
    Or(t, Txt(<<>>)).c))))

\* .split("\n")
RECURSIVE SplitLines(_, _)
SplitLines(c, line) ==
  IF c = <<>> THEN <<line>>
  ELSE IF c[1] = "\n" THEN <<line>> \o SplitLines(Tail(c), <<>>)
  ELSE SplitLines(Tail(c), Append(line, c[1]))

\* .replace(/[ \t]+/g, " ")
RECURSIVE SqueezeBlanks(_)
SqueezeBlanks(c) ==
  IF c = <<>> THEN <<>>
  ELSE IF IsBlank(c[1])
  THEN <<" ">> \o SqueezeBlanks(SubSeq(c, BlankRun(c) + 1, Len(c)))
  ELSE <<c[1]>> \o SqueezeBlanks(Tail(c))

\* cleanSpaces of a non-empty string
cleanSpaces(c) == Trim(SqueezeBlanks(c))

\* /\bword\b/i matches at position p; word is made of word characters
WordAt(c, p, word) ==
  /\ LitAt(c, p, word)
  /\ p = 1 \/ ~IsWordChar(c[p - 1])
  /\ p + Len(word) > Len(c) \/ ~IsWordChar(c[p + Len(word)])

\* /\bkWh\b/i.test(line) || /\bmnd\b/i.test(line)
hasQty(c) ==
  \E p \in 1..Len(c) :
    WordAt(c, p, <<"k", "w", "h">>) \/ WordAt(c, p, <<"m", "n", "d">>)

\* [\d.\s]
IsAmountBody(ch) == IsDigit(ch) \/ ch = "." \/ IsSpace(ch)

\* /(-?\d[\d.\s]*[,\.]\d{2})\s*$/.test(line): the amount starts with the
\* digit at j and ends with the two decimals at e - 1 and e
endsWithAmount(c) ==
  \E e \in 1..Len(c) :
    /\ \A k \in (e + 1)..Len(c) : IsSpace(c[k])
    /\ e >= 4
    /\ IsDigit(c[e]) /\ IsDigit(c[e - 1])
    /\ c[e - 2] \in {",", "."}
    /\ \E j \in 1..(e - 3) :
         /\ IsDigit(c[j])
         /\ \A k \in (j + 1)..(e - 3) : IsAmountBody(c[k])

\* the alternatives of the filter pattern
ExcludedWords ==
  {<<"s", "u", "m">>,
   <<"t", "o", "t", "a", "l", "t">>,
   <<"å", " ", "b", "e", "t", "a", "l", "e">>,
   <<"m", "v", "a">>,
   <<"m", "e", "r", "v", "e", "r", "d", "i", "a", "v", "g", "i", "f", "t">>,
   <<"f", "a", "k", "t", "u", "r", "a", "d", "a", "t", "o">>,
   <<"f", "o", "r", "f", "a", "l", "l", "s", "d", "a", "t", "o">>}

\* /sum|totalt|.../i.test(line)
isExcluded(c) ==
  \E w \in ExcludedWords : \E p \in 1..Len(c) : LitAt(c, p, w)

\* the body of the loop: line gets pushed
KeepLine(line) == hasQty(line) /\ endsWithAmount(line) /\ ~isExcluded(line)

\* Array.from(new Set(items)): the first of equal items stays
RECURSIVE Dedupe(_, _)
Dedupe(items, seen) ==
  IF items = <<>> THEN <<>>
  ELSE IF items[1] \in seen THEN Dedupe(Tail(items), seen)
  ELSE <<items[1]>> \o Dedupe(Tail(items), seen \cup {items[1]})

\* the lines of the text as the loop sees them: trimmed, the empty ones out
ScannedLines(t) ==
  LET split == SplitLines(normalizeText(t), <<>>)
      trimmed == [i \in DOMAIN split |-> Trim(split[i])]
  IN SelectSeq(trimmed, LAMBDA l : l # <<>>)

extractLineItems(t) ==
  LET kept == SelectSeq(ScannedLines(t), KeepLine)
  IN Arr(Dedupe([i \in DOMAIN kept |-> Txt(cleanSpaces(kept[i]))], {}))

---------------------------------------------------------------------------
(* Specification of value resolution over one entity *)

\* longest mention or normalized text of the value specification
MaxText == 1

Texts == {Txt(c) : c \in SeqsUpTo({" ", "a", "b"}, MaxText)}

ValuePool ==
  {Entity(F, mt, nv, Num(9), Undef) :
     mt \in {Undef} \cup Texts,
     nv \in {Undef, NvObj(Undef)} \cup Texts \cup {NvObj(x) : x \in Texts}}

InitValue ==
  /\ entities \in {Arr(<<e>>) : e \in ValuePool}
  /\ text = Txt(<<>>)
  /\ call = NoCall
  /\ ret = Undef
  /\ heap = Started
  /\ log = <<>>

\* part_000: entityValue(e)
CallEntityValue ==
  /\ call = NoCall
  /\ call' = [op |-> "entityValue", e |-> entities.a[1]]
  /\ ret' = entityValue(entities.a[1])
  /\ UNCHANGED <<entities, text, heap, log>>

\* server.js: entityValue(e)
CallSrvEntityValue ==
  /\ call = NoCall
  /\ call' = [op |-> "srv_entityValue", e |-> entities.a[1]]
  /\ ret' = srv_entityValue(entities.a[1])
  /\ UNCHANGED <<entities, text, heap, log>>

\* part_001: entityText(e)
CallEntityText ==
  /\ call = NoCall
  /\ call' = [op |-> "entityText", e |-> entities.a[1]]
  /\ ret' = entityText(entities.a[1])
  /\ UNCHANGED <<entities, text, heap, log>>

NextValue == CallEntityValue \/ CallSrvEntityValue \/ CallEntityText

SpecValue == InitValue /\ [][NextValue]_vars

\* a string that is not empty
IsNonEmptyString(v) == v.t = "txt" /\ v.c # <<>>

\* C2 as stated: entityValue(e) returns normalizedValue if it is a string;
\* else normalizedValue.text if that is a string; else mentionText if
\* present; else null.
C2_ResolutionOrderAsStated ==
  call.op = "entityValue" =>
    LET nv == call.e.normalizedValue
        mt == call.e.mentionText
    IN ret = IF nv.t = "txt" THEN nv
             ELSE IF nv.t = "nv" /\ nv.text.t = "txt" THEN nv.text
             ELSE IF mt.t = "txt" THEN mt
             ELSE Null

\* C2 as amended: the same order with an empty string counting as absent:
\* a non-empty string normalizedValue is returned; else a non-empty string
\* normalizedValue.text; else a non-empty mentionText; else null.
C2_ResolutionOrderNonEmpty ==
  call.op = "entityValue" =>
    LET nv == call.e.normalizedValue
        mt == call.e.mentionText
    IN ret = IF IsNonEmptyString(nv) THEN nv
             ELSE IF nv.t = "nv" /\ IsNonEmptyString(nv.text) THEN nv.text
             ELSE IF IsNonEmptyString(mt) THEN mt
             ELSE Null

\* a normalized {text} and a different mention are both there, and the
\* normalized text is returned
C2_Witness ==
  /\ call.op = "entityValue"
  /\ call.e.normalizedValue = NvObj(Txt(<<"a">>))
  /\ call.e.mentionText = Txt(<<"b">>)
  /\ ret = Txt(<<"a">>)

---------------------------------------------------------------------------
(* Specification of the grouped schema (part_000) over an entity tree *)

NameLeaf(mt, nv, cf) == Entity(SuppliName, mt, nv, cf, Undef)

NameLeaves ==
  {NameLeaf(Undef, Undef, Undef),
   NameLeaf(Txt(<<" ">>), Undef, Num(4)),
   NameLeaf(Txt(<<"a">>), Undef, Undef),
   NameLeaf(Txt(<<"a">>), Undef, Num(4)),
   NameLeaf(Txt(<<"b">>), Undef, Num(9)),
   NameLeaf(Txt(<<"a">>), NvObj(Txt(<<"n">>)), Num(4))}

AddressLeaf == Entity(SupplierAddress, Txt(<<"c">>), Undef, Num(9), Undef)

SupplierProps ==
  {Undef, Arr(<<>>)}
    \cup {Arr(<<l>>) : l \in NameLeaves \cup {AddressLeaf}}
    \cup {Arr(<<NameLeaf(Txt(<<" ">>), Undef, Num(9)),
                NameLeaf(Txt(<<"a">>), Undef, Num(4))>>),
          Arr(<<NameLeaf(Txt(<<"a">>), Undef, Undef),
                NameLeaf(Txt(<<"b">>), Undef, Num(9))>>),
          Arr(<<AddressLeaf, NameLeaf(Txt(<<"a">>), Undef, Num(4))>>)}

SupplierGroups ==
  {Entity(Supplier, Undef, Undef, Num(9), pr) : pr \in SupplierProps}
    \cup {Entity(Supplier, Undef, Undef, Undef, pr) :
            pr \in {Undef, Arr(<<NameLeaf(Txt(<<"a">>), Undef, Num(4))>>),
                    Arr(<<NameLeaf(Txt(<<" ">>), Undef, Num(4))>>)}}

\* the same field as the extractor emits it without the group
FlatNames ==
  {Entity(Str("Supplier.Suppli_name"), Txt(<<"d">>), Undef, Undef, Undef),
   Entity(Str("Supplier.Suppli_name"), Txt(<<"e">>), Undef, Num(9), Undef),
   Entity(Str("Supplier.Suppli_name"), Txt(<<" ">>), Undef, Num(4), Undef)}

MeterGroups ==
  {Entity(Meter, Undef, Undef, Num(4), Undef),
   Entity(Meter, Undef, Undef, Num(4),
          Arr(<<Entity(MeterNumber, Txt(<<"m">>), Undef, Num(9), Undef)>>))}

OtherEntities ==
  {\* no type, no confidence
   Entity(Undef, Txt(<<"u">>), Undef, Undef, Undef),
   \* a supplier group one level down
   Entity(Str("Outer"), Undef, Undef, Undef,
          Arr(<<Entity(Supplier, Undef, Undef, Num(9),
                       Arr(<<NameLeaf(Txt(<<"a">>), Undef, Num(4))>>))>>)),
   Entity(Str("invoice_date"), Txt(<<"a">>), Txt(<<"n">>), Num(9), Undef)}

GroupPool == SupplierGroups \cup FlatNames \cup MeterGroups \cup OtherEntities

Init ==
  /\ entities \in {Undef} \cup {Arr(s) : s \in SeqsUpTo(GroupPool, MaxEntities)}
  /\ text = Txt(<<>>)
  /\ call = NoCall
  /\ ret = Undef
  /\ heap = Started
  /\ log = <<>>

CallPick ==
  \E type \in {Supplier, Str("invoice_date"), Str("due_date")} :
    /\ call = NoCall
    /\ call' = [op |-> "pick", list |-> entities, type |-> type]
    /\ ret' = pick(entities, type)
    /\ UNCHANGED <<entities, text, heap, log>>

CallFlattenEntities ==
  /\ call = NoCall
  /\ call' = [op |-> "flattenEntities", list |-> entities]
  /\ ret' = flattenEntities(entities, "")
  /\ UNCHANGED <<entities, text, heap, log>>

CallGetFromGroupOrFlat ==
  \E groupType \in {Supplier, Str("Reciever")} :
    \E fieldType \in {SuppliName, SupplierAddress} :
      /\ call = NoCall
      /\ call' = [op |-> "getFromGroupOrFlat", list |-> entities,
                  groupType |-> groupType, fieldType |-> fieldType]
      /\ ret' = getFromGroupOrFlat(entities, groupType, fieldType)
      /\ UNCHANGED <<entities, text, heap, log>>

CallGetRepeatedGroupItems ==
  \E groupType \in {Supplier, Meter, Str("Additional_service")} :
    \E schemaFields \in {<<"Suppli_name", "Supplier_address">>, MeterFields} :
      /\ call = NoCall
      /\ call' = [op |-> "getRepeatedGroupItems", list |-> entities,
                  groupType |-> groupType, schemaFields |-> schemaFields]
      /\ ret' = getRepeatedGroupItems(entities, groupType, schemaFields)
      /\ UNCHANGED <<entities, text, heap, log>>

CallNormalizeEntities ==
  /\ call = NoCall
  /\ call' = [op |-> "normalizeEntities", list |-> entities]
  /\ ret' = normalizeEntities(entities)
  /\ UNCHANGED <<entities, text, heap, log>>

\* POST /process-invoice of part_000, once the extractor has answered
ProcessInvoice ==
  /\ call = NoCall
  /\ call' = [op |-> "processInvoice", list |-> entities]
  /\ ret' = processInvoice(entities)
  /\ log' = Append(log, [server |-> "part_000", entities |-> entities,
                         text |-> text, record |-> ret'])
  /\ UNCHANGED <<entities, text, heap>>

\* POST /process-invoice of server.js, once the extractor has answered:
\* getDocAiClient() has left the client in _client, and the arrays of the
\* call stay behind
SrvProcessInvoice ==
  \E requestId \in RequestIds :
    /\ call = NoCall
    /\ call' = [op |-> "srvProcessInvoice", list |-> entities, text |-> text]
    /\ ret' = srvProcessInvoice(entities, text, heap, requestId)
    /\ heap' = [client |-> "DocumentProcessorServiceClient",
                needs_review |-> ret'.needs_review]
    /\ log' = Append(log, [server |-> "server.js", entities |-> entities,
                           text |-> text,
                           record |-> [invoice |-> ret'.invoice,
                                       line_items |-> ret'.line_items,
                                       needs_review |-> ret'.needs_review]])
    /\ UNCHANGED <<entities, text>>

Next ==
  \/ CallBestEntity
  \/ CallPick
  \/ CallFlattenEntities
  \/ CallGetFromGroupOrFlat
  \/ CallGetRepeatedGroupItems
  \/ CallNormalizeEntities
  \/ ProcessInvoice
  \/ SrvProcessInvoice

Spec == Init /\ [][Next]_vars

---------------------------------------------------------------------------
(* Specification of the resolved fields over a flat list *)

\* one entity of each kind of confidence: none, null, 0, 0.4, 0.9
PickPool ==
  {Entity(ty, Txt(<<"a">>), Undef, cf, Undef) :
     ty \in {Supplier, Str("invoice_date")},
     cf \in {Undef, Null, Num(0), Num(4), Num(9)}}
    \cup
  \* a confidence that is a string, on the only entity of its type
  {Entity(Str("due_date"), Txt(<<"a">>), Undef, Str("high"), Undef)}

InitPick ==
  /\ entities \in {Undef} \cup {Arr(s) : s \in SeqsUpTo(PickPool, MaxList)}
  /\ text = Txt(<<>>)
  /\ call = NoCall
  /\ ret = Undef
  /\ heap = Started
  /\ log = <<>>

\* server.js: field(entities, type) on the output of normalizeEntities
CallField ==
  \E type \in {Supplier, Str("invoice_date"), Str("due_date")} :
    /\ call = NoCall
    /\ call' = [op |-> "field", list |-> entities, type |-> type]
    /\ ret' = field(normalizeEntities(entities), type)
    /\ UNCHANGED <<entities, text, heap, log>>

NextPick == CallPick \/ CallField

SpecPick == InitPick /\ [][NextPick]_vars

---------------------------------------------------------------------------
(* Specification of the flat schema (server.js): one request *)

\* an extractor entity of a mandatory type: nothing to resolve, a mention
\* with no, a low, a threshold or a zero confidence, or a normalized value
\* whose text is empty
ReviewPool ==
  UNION {{Entity(Str(ty), Undef, Undef, Num(9), Undef),
          Entity(Str(ty), Txt(<<"a">>), Undef, Undef, Undef),
          Entity(Str(ty), Txt(<<"a">>), Undef, Num(0), Undef),
          Entity(Str(ty), Txt(<<"b">>), Undef, Num(5), Undef),
          Entity(Str(ty), Txt(<<"c">>), Undef, Num(LowConfidence), Undef),
          Entity(Str(ty), Txt(<<"a">>), NvObj(Txt(<<>>)), Num(9), Undef)} :
           ty \in Range(mustHave)}

MeterText ==
  Txt(<<"M", "å", "l", "e", "r", "n", "r", ".", ":", " ",
        "7", "0", "7", "0", " ", "5", "7", "5", "-", "0", "0", "0">>)

InitReview ==
  /\ entities \in {Arr(s) : s \in SeqsUpTo(ReviewPool, MaxEntities)}
  /\ text = MeterText
  /\ call = NoCall
  /\ ret = Undef
  /\ heap = Started
  /\ log = <<>>

NextReview == SrvProcessInvoice

SpecReview == InitReview /\ [][NextReview]_vars

---------------------------------------------------------------------------
(* Specification of a server process that serves several requests *)

MaxRuns == 3

LineItemEntity ==
  Entity(Str("line_item"), Txt(<<"l">>), Undef, Num(9),
         Arr(<<Entity(Str("amount"), Txt(<<"1">>), Undef, Num(4), Undef),
               Entity(Str("amount"), Txt(<<"2">>), Undef, Num(9), Undef)>>))

\* what the extractor answers for the documents of the requests
Docs ==
  {[entities |-> Arr(<<Entity(Str("total_amount"), Txt(<<"b">>), Undef, Num(5),
                              Undef),
                       LineItemEntity>>),
    text |-> Txt(<<>>)]}
  \cup
  {[entities |-> e, text |-> tx] :
     e \in {Undef,
            Arr(<<Entity(Str("invoice_id"), Txt(<<"a">>), Undef, Num(9), Undef),
                  Entity(Str("invoice_date"), Txt(<<"a">>), Undef, Num(9), Undef),
                  Entity(Str("total_amount"), Txt(<<"a">>), Undef, Num(9), Undef),
                  Entity(Str("supplier_name"), Txt(<<"a">>), Undef, Num(9), Undef)>>)},
     tx \in {Undef, MeterText}}
  \cup
  {[entities |-> Arr(<<Entity(Supplier, Undef, Undef, Num(9),
                              Arr(<<NameLeaf(Txt(<<"a">>), Undef, Num(4))>>)),
                       Entity(Meter, Undef, Undef, Num(4), Undef)>>),
    text |-> Undef]}

InitRuns ==
  /\ \E doc \in Docs : entities = doc.entities /\ text = doc.text
  /\ call = NoCall
  /\ ret = Undef
  /\ heap = Started
  /\ log = <<>>

\* the answer has been sent, and the next request comes with its document
ReceiveRequest ==
  /\ call # NoCall
  /\ Len(log) < MaxRuns
  /\ \E doc \in Docs : entities' = doc.entities /\ text' = doc.text
  /\ call' = NoCall
  /\ ret' = Undef
  /\ UNCHANGED <<heap, log>>

NextRuns == ProcessInvoice \/ SrvProcessInvoice \/ ReceiveRequest

SpecRuns == InitRuns /\ [][NextRuns]_vars

---------------------------------------------------------------------------
(* Specification of the date fallback (part_001) *)

\* the longest run of other characters before and after a date
MaxPad == 1

DayOrMonth == {<<"8">>, <<"0", "8">>, <<"1", "2">>}

Years == {<<"2", "0", "2", "6">>, <<"2", "6">>}

Pads == SeqsUpTo({"x", "1"}, MaxPad)

DateLabels ==
  {<<"F", "a", "k", "t", "u", "r", "a", "d", "a", "t", "o", ":", " ">>,
   <<"D", "a", "t", "o", " ", "-">>}

\* day, month and year, in both orders, between what may stand around them
DateInputs ==
  {Undef, Null, Txt(<<"a", ".", "b">>)}
    \cup {Txt(pre \o d \o <<s1>> \o m \o <<s2>> \o y \o post) :
            pre \in Pads \cup DateLabels, d \in DayOrMonth,
            s1 \in {".", "/", "-", ":"}, m \in DayOrMonth, s2 \in {".", "/", "-"},
            y \in Years, post \in Pads}
    \cup {Txt(pre \o y \o <<"-">> \o m \o <<s2>> \o d \o post) :
            pre \in Pads \cup DateLabels, y \in Years, m \in DayOrMonth,
            s2 \in {"-", "."}, d \in DayOrMonth, post \in Pads}
    \cup {Txt(pre) : pre \in Pads}

DateEntities ==
  {Undef,
   Arr(<<Entity(Str("invoice_date"), Txt(<<"a">>), Undef, Num(9), Undef)>>),
   Arr(<<Entity(Str("invoice_date"), Txt(<<" ", "8", ".", "1", "2", ".", "2", "0", "2", "6">>),
                Undef, Num(4), Undef),
         Entity(Str("invoice_date"), Undef,
                NvObj(Txt(<<"2", "0", "2", "6", "-", "0", "8", "-", "1", "2", " ">>)),
                Num(9), Undef)>>)}

InitDate ==
  /\ entities \in DateEntities
  /\ text \in DateInputs
  /\ call = NoCall
  /\ ret = Undef
  /\ heap = Started
  /\ log = <<>>

\* part_001: toIsoDate(s)
CallToIsoDate ==
  /\ call = NoCall
  /\ call' = [op |-> "toIsoDate", s |-> text]
  /\ ret' = toIsoDate(text)
  /\ UNCHANGED <<entities, text, heap, log>>

\* part_001: extractInvoiceDate(doc, text), text being a string
CallExtractInvoiceDate ==
  /\ call = NoCall
  /\ IsString(text)
  /\ call' = [op |-> "extractInvoiceDate", list |-> entities, text |-> text]
  /\ ret' = extractInvoiceDate(entities, text)
  /\ UNCHANGED <<entities, text, heap, log>>

NextDate == CallToIsoDate \/ CallExtractInvoiceDate

SpecDate == InitDate /\ [][NextDate]_vars

---------------------------------------------------------------------------
(* Specification of the line-item scan (part_001) *)

\* the most pieces of a document text
MaxLines == 3

\* what a document text is made of, one line each but for the last
Pieces ==
  {   \* a unit and an amount
   <<"a", " ", "k", "W", "h", " ", "1", ",", "0", "0">>,
   \* the same line with other white space
   <<"a", " ", " ", "k", "W", "h", "\t", "1", ",", "0", "0">>,
   \* the same line between a blank and a carriage return
   <<" ", "a", " ", "k", "W", "h", " ", "1", ",", "0", "0", "\r">>,
   \* the other unit, an amount with a blank and a dot
   <<"b", " ", "m", "n", "d", " ", "1", " ", "0", "0", "0", ".", "5", "0">>,
   \* the unit in capitals, a negative amount
   <<"b", " ", "K", "W", "H", " ", "-", "2", ",", "0", "0">>,
   \* no decimals
   <<"a", " ", "k", "W", "h", " ", "1", "2">>,
   \* no unit
   <<"a", " ", "x", " ", "1", ",", "0", "0">>,
   \* the unit inside a word
   <<"a", "k", "W", "h", " ", "1", ",", "0", "0">>,
   \* a summary word, inside a word and with a capital
   <<"K", "o", "n", "s", "u", "m", " ", "k", "W", "h", " ", "1", ",", "0", "0">>,
   \* the summary words with one blank
   <<"å", " ", "b", "e", "t", "a", "l", "e", " ", "k", "W", "h", " ", "1", ",", "0", "0">>,
   \* the summary words with two blanks
   <<"å", " ", " ", "b", "e", "t", "a", "l", "e", " ", "k", "W", "h", " ", "1", ",", "0", "0">>,
   \* two empty lines
   <<"\n">>}

\* the pieces with a newline between them
RECURSIVE JoinLines(_)
JoinLines(ps) ==
  IF ps = <<>> THEN <<>>
  ELSE IF Len(ps) = 1 THEN ps[1]
  ELSE ps[1] \o <<"\n">> \o JoinLines(Tail(ps))

InitLines ==
  /\ entities = Undef
  /\ text \in {Undef} \cup {Txt(JoinLines(ps)) : ps \in SeqsUpTo(Pieces, MaxLines)}
  /\ call = NoCall
  /\ ret = Undef
  /\ heap = Started
  /\ log = <<>>

\* part_001: extractLineItems(text)
CallExtractLineItems ==
  /\ call = NoCall
  /\ call' = [op |-> "extractLineItems", text |-> text]
  /\ ret' = extractLineItems(text)
  /\ UNCHANGED <<entities, text, heap, log>>

NextLines == CallExtractLineItems

SpecLines == InitLines /\ [][NextLines]_vars

---------------------------------------------------------------------------
(* src/unnamed/part_001: the regular expressions of the field extractors.    *)
(* A pattern is a sequence of alternatives tried in order at every start;    *)
(* an alternative is a sequence of atoms matched by backtracking, longest    *)
(* repetition first.                                                         *)

\* a literal piece of a pattern
Lit(s) == [k |-> "lit", s |-> s]
\* a character class repeated min to max times, greedy; max -1: no limit
Rep(cls, min, max) == [k |-> "rep", cls |-> cls, min |-> min, max |-> max]
Opt(cls) == Rep(cls, 0, 1)
Star(cls) == Rep(cls, 0, -1)
Plus(cls) == Rep(cls, 1, -1)
\* the parentheses of the capture, \b, and ^ and $ under the /m flag
Open == [k |-> "open"]
Close == [k |-> "close"]
WordB == [k |-> "wordb"]
Bol == [k |-> "bol"]
Eol == [k |-> "eol"]

\* the character classes of the patterns
InClass(ch, cls) ==
  CASE cls = "digit" -> IsDigit(ch)                          \* [0-9], \d
    [] cls = "space" -> IsSpace(ch)                          \* \s
    [] cls = "dot" -> ch = "."                               \* \.
    [] cls = "sep" -> ch \in {":", "-"}                      \* [:\-]
    [] cls = "decimal" -> ch \in {",", "."}                  \* [,\.]
    [] cls = "amount" -> IsDigit(ch) \/ ch = "." \/ IsSpace(ch)  \* [0-9.\s]
    [] cls = "upper" -> \E k \in DOMAIN UpperChars : ch = UpperChars[k]
    [] cls = "name" ->                                       \* [A-Za-zÆØÅæøå \-]
         \/ ch \in {" ", "-"}
         \/ \E k \in DOMAIN UpperChars : ch = UpperChars[k] \/ ch = LowerChars[k]

\* how many characters of the class stand in a row from position p on
RECURSIVE ClassRun(_, _, _)
ClassRun(c, p, cls) ==
  IF p <= Len(c) /\ InClass(c[p], cls) THEN 1 + ClassRun(c, p + 1, cls) ELSE 0

LitMatches(c, p, lit, ci) ==
  /\ p + Len(lit) - 1 <= Len(c)
  /\ \A k \in 1..Len(lit) :
       IF ci THEN Fold(c[p + k - 1]) = Fold(lit[k]) ELSE c[p + k - 1] = lit[k]

IsLineEnd(ch) == ch \in {"\n", "\r"}

AtWordBoundary(c, p) ==
  (p > 1 /\ IsWordChar(c[p - 1])) # (p <= Len(c) /\ IsWordChar(c[p]))

NoMatch == [ok |-> FALSE, s |-> 0, e |-> 0]

\* the atoms from the i-th on match at position p; s and e are the bounds of
\* the capture so far
RECURSIVE MatchFrom(_, _, _, _, _, _, _)
RECURSIVE TryCount(_, _, _, _, _, _, _, _)
MatchFrom(c, atoms, ci, i, p, s, e) ==
  IF i > Len(atoms) THEN [ok |-> TRUE, s |-> s, e |-> e]
  ELSE LET a == atoms[i]
       IN CASE a.k = "lit" ->
                 IF LitMatches(c, p, a.s, ci)
                 THEN MatchFrom(c, atoms, ci, i + 1, p + Len(a.s), s, e)
                 ELSE NoMatch
            [] a.k = "open" -> MatchFrom(c, atoms, ci, i + 1, p, p, e)
            [] a.k = "close" -> MatchFrom(c, atoms, ci, i + 1, p, s, p)
            [] a.k = "wordb" ->
                 IF AtWordBoundary(c, p)
                 THEN MatchFrom(c, atoms, ci, i + 1, p, s, e) ELSE NoMatch
            [] a.k = "bol" ->
                 IF p = 1 \/ IsLineEnd(c[p - 1])
                 THEN MatchFrom(c, atoms, ci, i + 1, p, s, e) ELSE NoMatch
            [] a.k = "eol" ->
                 IF p = Len(c) + 1 \/ IsLineEnd(c[p])
                 THEN MatchFrom(c, atoms, ci, i + 1, p, s, e) ELSE NoMatch
            [] a.k = "rep" ->
                 LET run == ClassRun(c, p, a.cls)
                 IN TryCount(c, atoms, ci, i, p, s, e,
                             IF a.max < 0 THEN run ELSE Min(run, a.max))

\* the repetition atoms[i] taking n characters, then fewer
TryCount(c, atoms, ci, i, p, s, e, n) ==
  IF n < atoms[i].min THEN NoMatch
  ELSE LET r == MatchFrom(c, atoms, ci, i + 1, p + n, s, e)
       IN IF r.ok THEN r ELSE TryCount(c, atoms, ci, i, p, s, e, n - 1)

\* the first alternative, from the k-th on, that matches at position p
RECURSIVE AltsAt(_, _, _, _)
AltsAt(c, re, p, k) ==
  IF k > Len(re.alts) THEN NoMatch
  ELSE LET r == MatchFrom(c, re.alts[k], re.ci, 1, p, 0, 0)
       IN IF r.ok THEN r ELSE AltsAt(c, re, p, k + 1)

\* text.match(re): the leftmost match, from position p on
RECURSIVE MatchRe(_, _, _)
MatchRe(c, re, p) ==
  IF p > Len(c) + 1 THEN NoMatch
  ELSE LET r == AltsAt(c, re, p, 1)
       IN IF r.ok THEN r ELSE MatchRe(c, re, p + 1)

\* firstMatch(text, patterns), from the k-th pattern on
RECURSIVE FirstMatchFrom(_, _, _)
FirstMatchFrom(c, patterns, k) ==
  IF k > Len(patterns) THEN Null
  ELSE LET m == MatchRe(c, patterns[k], 1)
       IN IF m.ok /\ m.e > m.s THEN Txt(Trim(SubSeq(c, m.s, m.e - 1)))
          ELSE FirstMatchFrom(c, patterns, k + 1)

firstMatch(c, patterns) == FirstMatchFrom(c, patterns, 1)

\* \.?\s*[:\-]?\s*([0-9]{5,20})
IdTail ==
  <<Opt("dot"), Star("space"), Opt("sep"), Star("space"),
    Open, Rep("digit", 5, 20), Close>>

InvoiceIdPatterns ==
  <<[ci |-> TRUE,
     alts |-> <<<<Lit(<<"F", "a", "k", "t", "u", "r", "a", "n", "u", "m", "m", "e", "r">>)>> \o IdTail,
                <<Lit(<<"F", "a", "k", "t", "u", "r", "a", "n", "r">>)>> \o IdTail>>],
    [ci |-> TRUE, alts |-> <<<<Lit(<<"F", "a", "k", "t", "u", "r", "a", "n", "r">>)>> \o IdTail>>],
    [ci |-> TRUE,
     alts |-> <<<<Lit(<<"I", "n", "v", "o", "i", "c", "e">>), Star("space"), Lit(<<"I", "D">>)>>
                  \o Tail(IdTail),
                <<Lit(<<"I", "n", "v", "o", "i", "c", "e">>), Star("space"), Lit(<<"N", "o">>)>>
                  \o IdTail>>]>>

CurrencyPatterns ==
  <<[ci |-> TRUE,
     alts |-> <<<<WordB, Open, Lit(<<"N", "O", "K">>), Close, WordB>>,
                <<WordB, Open, Lit(<<"S", "E", "K">>), Close, WordB>>,
                <<WordB, Open, Lit(<<"D", "K", "K">>), Close, WordB>>,
                <<WordB, Open, Lit(<<"k", "r">>), Close, WordB>>>>]>>

SupplierNamePatterns ==
  <<[ci |-> FALSE,
     alts |-> <<<<Bol, Star("space"), Open, Rep("upper", 1, 1),
                  Rep("name", 2, 40), Close, Star("space"), Eol>>>>]>>

SupplierAddressPatterns ==
  <<[ci |-> TRUE,
     alts |-> <<<<Open, Lit(<<"P", "o", "s", "t", "b", "o", "k", "s">>), Plus("space"), Plus("digit"),
                  Lit(<<",">>), Star("space"), Rep("digit", 4, 4),
                  Star("space"), Plus("name"), Close>>>>],
    [ci |-> TRUE,
     alts |-> <<<<Open, Plus("name"), Plus("space"), Rep("digit", 1, 4),
                  Lit(<<",">>), Star("space"), Rep("digit", 4, 4),
                  Star("space"), Plus("name"), Close>>>>]>>

\* \s*[:\-]?\s*([0-9][0-9.\s]*[,\.]\d{2})
AmountTail ==
  <<Star("space"), Opt("sep"), Star("space"), Open, Rep("digit", 1, 1),
    Star("amount"), Rep("decimal", 1, 1), Rep("digit", 2, 2), Close>>

TotalAmountPatterns ==
  <<[ci |-> TRUE,
     alts |-> <<<<Lit(<<"Å">>), Star("space"), Lit(<<"b", "e", "t", "a", "l", "e">>)>> \o AmountTail>>],
    [ci |-> TRUE,
     alts |-> <<<<Lit(<<"T", "o", "t", "a", "l", "b", "e", "l", "ø", "p">>)>> \o AmountTail,
                <<Lit(<<"T", "o", "t", "a", "l">>)>> \o AmountTail>>]>>

NetAmountPatterns ==
  <<[ci |-> TRUE, alts |-> <<<<Lit(<<"N", "e", "t", "t", "o", "b", "e", "l", "ø", "p">>)>> \o AmountTail>>],
    [ci |-> TRUE, alts |-> <<<<WordB, Lit(<<"N", "e", "t", "t", "o">>)>> \o AmountTail>>]>>

---------------------------------------------------------------------------
(* src/unnamed/part_001: the field extractors with an entity and a pattern *)

stripNumberLike(s) ==
  IF Truthy(s) THEN Txt(SelectSeq(s.c, LAMBDA ch : IsDigit(ch))) ELSE Null

\* cleanSpaces with its test of s
cleanSpacesOf(s) == IF Truthy(s) THEN Txt(cleanSpaces(s.c)) ELSE Null

amountAsText(s) == IF Truthy(s) THEN cleanSpacesOf(s) ELSE Null

\* every branch behind the test of s returns "kr"
cleanCurrency(s) == IF ~Truthy(s) THEN Null ELSE Txt(<<"k", "r">>)

\* a buggy variant of extractInvoiceId: the text is asked first
extractInvoiceId_textFirst(docEntities, txt) ==
  LET fromAi == entityText(doc_bestEntity(docEntities, Str("invoice_id")))
      v == firstMatch(txt.c, InvoiceIdPatterns)
  IN IF Truthy(v) THEN stripNumberLike(v)
     ELSE IF Truthy(fromAi) THEN Or(stripNumberLike(fromAi), fromAi)
     ELSE Null

extractInvoiceId(docEntities, txt) ==
  LET fromAi == entityText(doc_bestEntity(docEntities, Str("invoice_id")))
      v == firstMatch(txt.c, InvoiceIdPatterns)
  IN IF Truthy(fromAi) THEN Or(stripNumberLike(fromAi), fromAi)
     ELSE IF Truthy(v) THEN stripNumberLike(v)
     ELSE Null

extractCurrency(docEntities, txt) ==
  LET fromAi == entityText(doc_bestEntity(docEntities, Str("currency")))
  IN IF Truthy(fromAi) THEN cleanCurrency(fromAi)
     ELSE cleanCurrency(firstMatch(txt.c, CurrencyPatterns))

extractSupplierName(docEntities, txt) ==
  LET fromAi == entityText(doc_bestEntity(docEntities, Str("supplier_name")))
  IN IF Truthy(fromAi) THEN fromAi
     ELSE firstMatch(txt.c, SupplierNamePatterns)

extractSupplierAddress(docEntities, txt) ==
  LET fromAi == entityText(doc_bestEntity(docEntities, Str("supplier_address")))
  IN IF Truthy(fromAi) THEN cleanSpacesOf(fromAi)
     ELSE cleanSpacesOf(firstMatch(txt.c, SupplierAddressPatterns))

extractTotalAmount(docEntities, txt) ==
  LET fromAi == entityText(doc_bestEntity(docEntities, Str("total_amount")))
  IN IF Truthy(fromAi) THEN amountAsText(fromAi)
     ELSE amountAsText(firstMatch(txt.c, TotalAmountPatterns))

extractNetAmount(docEntities, txt) ==
  LET fromAi == entityText(doc_bestEntity(docEntities, Str("net_amount")))
  IN IF Truthy(fromAi) THEN amountAsText(fromAi)
     ELSE amountAsText(firstMatch(txt.c, NetAmountPatterns))

---------------------------------------------------------------------------
(* Specification of the field extractors *)

ExtractTypes ==
  {"invoice_id", "invoice_date", "currency", "supplier_name",
   "supplier_address", "total_amount", "net_amount"}

\* the texts that the entities carry
ExtractValues ==
  {<<"a">>, <<" ">>, <<"A", " ", " ", "7">>,
   <<"1", ".", "2", ".", "2", "0", "2", "6">>}

ExtractPool ==
  {Entity(Str(ty), Txt(v), Undef, Num(9), Undef) :
     ty \in ExtractTypes, v \in ExtractValues}
    \cup {Entity(Str(ty), Txt(<<"a">>), NvObj(Txt(<<>>)), Num(9), Undef) :
            ty \in {"invoice_date", "supplier_name"}}

ExtractLists ==
  {Undef} \cup {Arr(<<e>>) : e \in ExtractPool}
    \cup {Arr(<<Entity(Str(ty), Txt(<<" ">>), Undef, Num(4), Undef),
                Entity(Str(ty), Txt(<<"b">>), Undef, Undef, Undef)>>) :
            ty \in ExtractTypes}

TextIdDate ==
  <<"F", "a", "k", "t", "u", "r", "a", "n", "r", ":", " ", "1", "2", "3",
        "4", "5", "\n", "D", "a", "t", "o", " ", "3", ".", "4", ".", "2",
        "0", "2", "6">>

TextInvoiceNo ==
  <<"I", "n", "v", "o", "i", "c", "e", " ", "N", "o", ".", " ", "1", "2",
        "3", "4", "5", "6", "7">>

TextSupplier ==
  <<"A", "c", "m", "e", " ", "A", "S", "\n", "P", "o", "s", "t", "b",
        "o", "k", "s", " ", "1", "2", ",", " ", "9", "2", "9", "1", " ",
        "O", "s", "l", "o">>

TextAmounts ==
  <<"Å", " ", "b", "e", "t", "a", "l", "e", ":", " ", "1", " ", "2", "3",
        "4", ",", "5", "0", " ", "k", "r", "\n", "N", "e", "t", "t", "o",
        " ", "9", "9", ".", "0", "0">>

TextTotals ==
  <<"T", "o", "t", "a", "l", "b", "e", "l", "ø", "p", " ", "1", "0", ",",
        "0", "0", " ", "N", "O", "K", "\n", "N", "e", "t", "t", "o", "b",
        "e", "l", "ø", "p", ":", " ", "8", ",", "0", "0">>

TextStreet ==
  <<"S", "t", "o", "r", "g", "a", "t", "a", " ", "5", ",", " ", "0", "1",
        "5", "5", " ", "O", "s", "l", "o">>

TextShortId ==
  <<"F", "a", "k", "t", "u", "r", "a", "n", "u", "m", "m", "e", "r", " ",
        "1", "2", "3">>

ExtractTexts ==
  {Txt(c) : c \in {<<>>, TextIdDate, TextInvoiceNo, TextSupplier, TextAmounts,
                   TextTotals, TextStreet, TextShortId}}

InitExtract ==
  /\ entities \in ExtractLists
  /\ text \in ExtractTexts
  /\ call = NoCall
  /\ ret = Undef
  /\ heap = Started
  /\ log = <<>>

CallExtractInvoiceId ==
  /\ call = NoCall
  /\ IsString(text)
  /\ call' = [op |-> "extractInvoiceId", list |-> entities, text |-> text]
  /\ ret' = extractInvoiceId(entities, text)
  /\ UNCHANGED <<entities, text, heap, log>>

CallExtractCurrency ==
  /\ call = NoCall
  /\ IsString(text)
  /\ call' = [op |-> "extractCurrency", list |-> entities, text |-> text]
  /\ ret' = extractCurrency(entities, text)
  /\ UNCHANGED <<entities, text, heap, log>>

CallExtractSupplierName ==
  /\ call = NoCall
  /\ IsString(text)
  /\ call' = [op |-> "extractSupplierName", list |-> entities, text |-> text]
  /\ ret' = extractSupplierName(entities, text)
  /\ UNCHANGED <<entities, text, heap, log>>

CallExtractSupplierAddress ==
  /\ call = NoCall
  /\ IsString(text)
  /\ call' = [op |-> "extractSupplierAddress", list |-> entities, text |-> text]
  /\ ret' = extractSupplierAddress(entities, text)
  /\ UNCHANGED <<entities, text, heap, log>>

CallExtractTotalAmount ==
  /\ call = NoCall
  /\ IsString(text)
  /\ call' = [op |-> "extractTotalAmount", list |-> entities, text |-> text]
  /\ ret' = extractTotalAmount(entities, text)
  /\ UNCHANGED <<entities, text, heap, log>>

CallExtractNetAmount ==
  /\ call = NoCall
  /\ IsString(text)
  /\ call' = [op |-> "extractNetAmount", list |-> entities, text |-> text]
  /\ ret' = extractNetAmount(entities, text)
  /\ UNCHANGED <<entities, text, heap, log>>

NextExtract ==
  \/ CallExtractInvoiceId
  \/ CallExtractInvoiceDate
  \/ CallExtractCurrency
  \/ CallExtractSupplierName
  \/ CallExtractSupplierAddress
  \/ CallExtractTotalAmount
  \/ CallExtractNetAmount

SpecExtract == InitExtract /\ [][NextExtract]_vars

---------------------------------------------------------------------------
(* The entity tree, read without the code: every node with its dotted path.  *)
(* The trees of GroupPool are at most three levels deep.                     *)

TypeName(e) == IF e.type.t = "str" /\ e.type.s # "" THEN e.type.s ELSE "unknown"

ChildrenOf(e) == IF e.properties.t = "arr" THEN e.properties.a ELSE <<>>

Level1(L) == {[path |-> TypeName(L[i]), e |-> L[i]] : i \in 1..Len(L)}

BelowNodes(S) ==
  UNION {{[path |-> n.path \o "." \o TypeName(ChildrenOf(n.e)[j]),
           e |-> ChildrenOf(n.e)[j]] : j \in 1..Len(ChildrenOf(n.e))} : n \in S}

TreeNodes(L) ==
  Level1(L) \cup BelowNodes(Level1(L)) \cup BelowNodes(BelowNodes(Level1(L)))

\* v is a string with something other than white space in it
HasText(v) == v.t = "txt" /\ \E i \in 1..Len(v.c) : v.c[i] \notin {" ", "\t", "\n"}

\* what field fieldType resolves to among the direct properties of the
\* group that bestEntity chooses for groupType (null without such a group)
GroupedValue(list, groupType, fieldType) ==
  LET group == bestEntity(list, groupType)
  IN IF group.t = "ent" /\ group.properties.t = "arr"
     THEN entityValue(bestEntity(group.properties, fieldType))
     ELSE Null

\* C3: if the group chosen by bestEntity resolves the field to a value that
\* is not blank, getFromGroupOrFlat returns that value; otherwise it returns
\* the value of a highest-confidence node of the tree whose dotted type is
\* exactly "G.F", or null if there is no such node.
C3_GroupThenFlat ==
  call.op = "getFromGroupOrFlat" =>
    LET L == ListOf(call.list)
        grouped == GroupedValue(call.list, call.groupType, call.fieldType)
        dotted == call.groupType.s \o "." \o call.fieldType.s
        flat == {n \in TreeNodes(L) : n.path = dotted}
    IN IF HasText(grouped) THEN ret = grouped
       ELSE IF flat = {} THEN ret = Null
       ELSE \E n \in flat :
              /\ \A m \in flat : RankingConfidence(m.e) <= RankingConfidence(n.e)
              /\ ret = entityValue(n.e)

\* a flat "Supplier.Suppli_name" entity of confidence 0.9 stands before a
\* group whose Suppli_name has confidence 0.4: the grouped value is returned
C3_Witness ==
  /\ call.op = "getFromGroupOrFlat"
  /\ call.groupType = Supplier /\ call.fieldType = SuppliName
  /\ LET L == ListOf(call.list)
     IN /\ Len(L) = 2
        /\ L[1] = Entity(Str("Supplier.Suppli_name"), Txt(<<"e">>), Undef,
                         Num(9), Undef)
        /\ L[2].type = Supplier
        /\ L[2].properties = Arr(<<NameLeaf(Txt(<<"a">>), Undef, Num(4))>>)
  /\ ret = Txt(<<"a">>)

\* the positions of the top-level entities of type groupType
GroupPositions(L, groupType) == {i \in 1..Len(L) : L[i].type = groupType}

\* the position of the k-th of them
KthPosition(L, groupType, k) ==
  CHOOSE i \in GroupPositions(L, groupType) :
    Cardinality({j \in GroupPositions(L, groupType) : j <= i}) = k

\* C4: getRepeatedGroupItems returns an array with one record per top-level
\* entity of type G, the i-th built from the properties of the i-th such
\* entity in list order, and an empty array when there is none or the list
\* is absent.
C4_OneRecordPerGroupInOrder ==
  call.op = "getRepeatedGroupItems" =>
    LET L == ListOf(call.list)
        pos == GroupPositions(L, call.groupType)
    IN /\ ret.t = "arr"
       /\ Len(ret.a) = Cardinality(pos)
       /\ \A k \in 1..Cardinality(pos) :
            LET g == L[KthPosition(L, call.groupType, k)]
            IN \A i \in 1..Len(call.schemaFields) :
                 ret.a[k][call.schemaFields[i]] =
                   entityValue(bestEntity(Arr(ChildrenOf(g)),
                                          Str(call.schemaFields[i])))

\* two supplier groups, the second of higher confidence and with another
\* name: two records, the first group's first
C4_Witness ==
  /\ call.op = "getRepeatedGroupItems"
  /\ call.groupType = Supplier
  /\ call.schemaFields = <<"Suppli_name", "Supplier_address">>
  /\ LET L == ListOf(call.list)
     IN /\ Len(L) = 2
        /\ L[1].type = Supplier /\ L[1].confidence = Undef
        /\ L[2].type = Supplier /\ L[2].confidence = Num(9)
  /\ Len(ret.a) = 2
  /\ ret.a[1]["Suppli_name"] = Txt(<<"a">>)
  /\ ret.a[2]["Suppli_name"] = Txt(<<"b">>)

---------------------------------------------------------------------------
(* The review flags of server.js *)

\* the mandatory fields, in the order of the list
Mandatory == <<"invoice_id", "invoice_date", "total_amount", "supplier_name">>

IsEmptyValue(v) == v = Null \/ v = Txt(<<>>)

\* what is due for a mandatory field, from its resolved value and confidence
ReasonFor(fld) ==
  IF IsEmptyValue(fld.value) THEN "missing"
  ELSE IF fld.confidence.t = "num" /\ fld.confidence.n < 6 THEN "low_confidence"
  ELSE "none"

\* C5: for each mandatory field, in list order: a null or empty resolved
\* value gives exactly one flag {field, reason: "missing"}; a present value
\* whose confidence is a number strictly below 0.6 gives exactly one flag
\* {field, reason: "low_confidence", confidence}; a present value with an
\* unknown confidence or one of at least 0.6 gives no flag.  The flags are
\* in mandatory-list order and no field is flagged twice.
C5_ReviewFlags ==
  call.op = "srvProcessInvoice" =>
    LET flags == ret.needs_review
        due == {k \in 1..Len(Mandatory) :
                  ReasonFor(ret.invoice[Mandatory[k]]) # "none"}
        Rank(k) == Cardinality({j \in due : j <= k})
    IN /\ Len(flags) = Cardinality(due)
       /\ \A k \in due :
            LET fld == ret.invoice[Mandatory[k]]
            IN flags[Rank(k)] =
                 IF ReasonFor(fld) = "missing"
                 THEN [field |-> Mandatory[k], reason |-> "missing"]
                 ELSE [field |-> Mandatory[k], reason |-> "low_confidence",
                       confidence |-> fld.confidence]

\* no invoice_id and no invoice_date, a total_amount of confidence 0.5 and a
\* supplier_name of confidence exactly 0.6: three flags, none for the name
C5_Witness ==
  /\ call.op = "srvProcessInvoice"
  /\ ret.invoice.total_amount = [value |-> Txt(<<"b">>), confidence |-> Num(5)]
  /\ ret.invoice.supplier_name = [value |-> Txt(<<"c">>), confidence |-> Num(6)]
  /\ ret.needs_review =
       <<[field |-> "invoice_id", reason |-> "missing"],
         [field |-> "invoice_date", reason |-> "missing"],
         [field |-> "total_amount", reason |-> "low_confidence",
          confidence |-> Num(5)]>>

---------------------------------------------------------------------------
(* The keys of the output record *)

StringOrNull(v) == v = Null \/ v.t = "txt"

\* the entities of type ty at the top of the list
TopOfType(L, ty) == {i \in 1..Len(L) : L[i].type = Str(ty)}

GroupedScalars ==
  {"invoice_number", "invoice_date", "due_date", "net_amount", "vat_amount",
   "total_amount"}

GroupedSingles ==
  [Supplier |-> {"Suppli_name", "Supplier_address", "supplier_email",
                 "Supplier_orgnr", "Supplier_phone"},
   Reciever |-> {"reciever_name", "reciever_address"},
   Agreement |-> {"agreement_name", "agreement_type", "fixed_fee",
                  "markup_ore", "spot_price_ore"}]

GroupedRepeated ==
  [Meter |-> {"meter_number", "meter_adress", "grid_area", "facility_id",
              "consumption_kwh", "estimated_annual_kwh", "period_from",
              "period_to"},
   Additional_service |-> {"service_name", "service_amount", "service_vat"}]

FlatFields ==
  {"invoice_id", "invoice_date", "due_date", "supplier_name",
   "supplier_address", "supplier_organization_id", "buyer_name",
   "buyer_address", "currency", "net_amount", "total_tax_amount",
   "total_amount", "iban", "bank_account_number", "swift",
   "payment_reference"}

\* every record of the collection has exactly the keys names, each with a
\* string or null
RecordsCarry(coll, names) ==
  /\ coll.t = "arr"
  /\ \A i \in 1..Len(coll.a) :
       /\ DOMAIN coll.a[i] = names
       /\ \A f \in names : StringOrNull(coll.a[i][f])

\* C6: every record of getRepeatedGroupItems has a key for each name of
\* fieldNames, with a string or null; every single-valued field of the
\* built record (part_000 and server.js) is there, null when no entity of
\* its type is found; the repeated groups are collections, never null.
C6_EveryFieldCarried ==
  /\ call.op = "getRepeatedGroupItems" =>
       RecordsCarry(ret, Range(call.schemaFields))
  /\ call.op = "processInvoice" =>
       /\ ret.status = 200
       /\ GroupedScalars \cup DOMAIN GroupedSingles \cup DOMAIN GroupedRepeated
            \subseteq DOMAIN ret.data
       /\ \A k \in GroupedScalars :
            /\ StringOrNull(ret.data[k])
            /\ TopOfType(ListOf(call.list), k) = {} => ret.data[k] = Null
       /\ \A g \in DOMAIN GroupedSingles :
            /\ DOMAIN ret.data[g] = GroupedSingles[g]
            /\ \A f \in GroupedSingles[g] : StringOrNull(ret.data[g][f])
       /\ \A g \in DOMAIN GroupedRepeated :
            RecordsCarry(ret.data[g], GroupedRepeated[g])
  /\ call.op = "srvProcessInvoice" =>
       /\ DOMAIN ret.invoice = FlatFields \cup {"meter_number"}
       /\ \A k \in FlatFields :
            /\ StringOrNull(ret.invoice[k].value)
            /\ TopOfType(ListOf(call.list), k) = {} =>
                 ret.invoice[k] = [value |-> Null, confidence |-> Null]
       /\ StringOrNull(ret.invoice.meter_number.value)
       /\ ret.line_items.t = "arr"

\* a supplier group without properties next to a meter group without
\* properties: the record has every key, the supplier's with null, and one
\* meter record with null for each of its fields
C6_Witness ==
  /\ call.op = "processInvoice"
  /\ Len(ListOf(call.list)) = 2
  /\ call.list.a[1] = Entity(Supplier, Undef, Undef, Undef, Undef)
  /\ call.list.a[2] = Entity(Meter, Undef, Undef, Num(4), Undef)
  /\ ret.data.Supplier.Suppli_name = Null
  /\ ret.data.invoice_date = Null
  /\ ret.data.Additional_service = Arr(<<>>)
  /\ Len(ret.data.Meter.a) = 1
  /\ \A f \in GroupedRepeated.Meter : ret.data.Meter.a[1][f] = Null

---------------------------------------------------------------------------
(* Several requests to one process *)

\* C7: two requests with the same entity tree and document text get the
\* same record, whatever was served before and between them.
C7_SameInputSameRecord ==
  \A i, j \in DOMAIN log :
    (/\ log[i].server = log[j].server
     /\ log[i].entities = log[j].entities
     /\ log[i].text = log[j].text) => log[i].record = log[j].record

\* server.js has served a document that needs review, then another one,
\* then the first again
C7_Witness ==
  /\ Len(log) = 3
  /\ log[1].server = "server.js" /\ log[3].server = "server.js"
  /\ log[2].server = "server.js"
  /\ log[1].entities = log[3].entities /\ log[1].text = log[3].text
  /\ log[2].entities # log[1].entities
  /\ Len(log[1].record.needs_review) = 4
  /\ Len(log[2].record.needs_review) = 0
  /\ log[1].record.invoice.meter_number.value # Null
  /\ log[3].record = log[1].record

---------------------------------------------------------------------------
(* Partially-shaped input *)

Ops ==
  {"bestEntity", "pick", "flattenEntities", "getFromGroupOrFlat",
   "getRepeatedGroupItems", "normalizeEntities"}

\* C8: on every entity tree in which entities, properties, type,
\* mentionText, normalizedValue or confidence may be absent on any node,
\* and for any entity type, bestEntity, pick, flattenEntities,
\* getFromGroupOrFlat, getRepeatedGroupItems and normalizeEntities return
\* without an error, and what is missing comes back null or empty.
C8_NoErrorOnPartialInput ==
  call.op \in Ops =>
    LET L == ListOf(call.list)
    IN /\ ret # Thrown
       /\ call.op = "bestEntity" /\ TopOfType(L, call.type.s) = {} => ret = Null
       /\ call.op = "pick" /\ TopOfType(L, call.type.s) = {} =>
            ret = [value |-> Null, confidence |-> Null]
       /\ call.op = "pick" /\ TopOfType(L, call.type.s) # {} =>
            /\ StringOrNull(ret.value)
            /\ ret.confidence = Null \/ ret.confidence.t = "num"
       /\ call.op = "flattenEntities" =>
            /\ ret.t = "arr"
            /\ Len(ret.a) >= Len(L)
            /\ \A i \in 1..Len(ret.a) : ret.a[i].type.t = "str"
            /\ call.list = Undef => ret = Arr(<<>>)
       /\ call.op = "getFromGroupOrFlat" =>
            /\ StringOrNull(ret)
            /\ (\A n \in TreeNodes(L) :
                  n.e.mentionText = Undef /\ n.e.normalizedValue = Undef)
                 => ret = Null
       /\ call.op = "getRepeatedGroupItems" =>
            /\ ret.t = "arr"
            /\ TopOfType(L, call.groupType.s) = {} => ret = Arr(<<>>)
       /\ call.op = "normalizeEntities" =>
            /\ ret.t = "arr"
            /\ Len(ret.a) = Len(L)

\* an entity with nothing but a mention, and a supplier group with nothing
\* but its type: flattening gives both, the first as "unknown"
C8_Witness ==
  /\ call.op = "flattenEntities"
  /\ call.list = Arr(<<Entity(Undef, Txt(<<"u">>), Undef, Undef, Undef),
                       Entity(Supplier, Undef, Undef, Undef, Undef)>>)
  /\ Len(ret.a) = 2
  /\ ret.a[1].type = Str("unknown")
  /\ ret.a[2].type = Supplier

---------------------------------------------------------------------------
(* The date fallback *)

Digit(ch) == ch \in {"0", "1", "2", "3", "4", "5", "6", "7", "8", "9"}

AllDigit(c) == \A i \in DOMAIN c : Digit(c[i])

\* the whole of c is YYYY-MM-DD
IsoForm(c) ==
  /\ Len(c) = 10
  /\ AllDigit(SubSeq(c, 1, 4)) /\ c[5] = "-"
  /\ AllDigit(SubSeq(c, 6, 7)) /\ c[8] = "-"
  /\ AllDigit(SubSeq(c, 9, 10))

\* c is day, separator, month, separator, year, with the separators of seps
\* and a day of dl and a month of ml digits
DmyShape(c, dl, ml, seps) ==
  /\ Len(c) = dl + ml + 6
  /\ AllDigit(SubSeq(c, 1, dl))
  /\ c[dl + 1] \in seps
  /\ AllDigit(SubSeq(c, dl + 2, dl + ml + 1))
  /\ c[dl + ml + 2] \in seps
  /\ AllDigit(SubSeq(c, dl + ml + 3, dl + ml + 6))

ZeroPadded(x) == IF Len(x) = 1 THEN <<"0">> \o x ELSE x

\* some part of c looks like a date: year-month-day, or day, month and
\* year with any of the three separators
HasDatePattern(c) ==
  \E i \in 1..Len(c) : \E j \in i..Len(c) :
    \/ IsoForm(SubSeq(c, i, j))
    \/ \E dl, ml \in {1, 2} : DmyShape(SubSeq(c, i, j), dl, ml, {".", "/", "-"})

\* C9: toIsoDate returns an input of the form YYYY-MM-DD as it is; an input
\* of the form D.M.YYYY, D/M/YYYY or D-M-YYYY, with a day and a month of
\* one or two digits, as YYYY-MM-DD with the day and the month padded with
\* a zero to two digits; and null for null, the empty string and any input
\* that holds no date pattern.  What it returns is null or of the form
\* YYYY-MM-DD, also at the end of extractInvoiceDate.
C9_DateFallback ==
  /\ call.op = "toIsoDate" =>
       /\ call.s \in {Undef, Null, Txt(<<>>)} => ret = Null
       /\ call.s.t = "txt" =>
            LET c == call.s.c
            IN /\ IsoForm(c) => ret = Txt(c)
               /\ \A dl, ml \in {1, 2} : \A sep \in {".", "/", "-"} :
                    DmyShape(c, dl, ml, {sep}) =>
                      ret = Txt(SubSeq(c, dl + ml + 3, dl + ml + 6) \o <<"-">>
                                  \o ZeroPadded(SubSeq(c, dl + 2, dl + ml + 1))
                                  \o <<"-">> \o ZeroPadded(SubSeq(c, 1, dl)))
               /\ ~HasDatePattern(c) => ret = Null
  /\ call.op \in {"toIsoDate", "extractInvoiceDate"} =>
       ret = Null \/ (ret.t = "txt" /\ IsoForm(ret.c))

\* "8/12/2026" gives "2026-12-08"
C9_Witness ==
  /\ call.op = "toIsoDate"
  /\ call.s = Txt(<<"8", "/", "1", "2", "/", "2", "0", "2", "6">>)
  /\ ret = Txt(<<"2", "0", "2", "6", "-", "1", "2", "-", "0", "8">>)

---------------------------------------------------------------------------
(* The line-item scan *)

\* the lines of the text after whitespace normalization, in text order
NormalizedLines(t) ==
  [i \in DOMAIN ScannedLines(t) |-> cleanSpaces(ScannedLines(t)[i])]

\* the line has a unit, ends with a decimal amount and has no summary word
Qualifies(l) == hasQty(l) /\ endsWithAmount(l) /\ ~isExcluded(l)

\* where a line stands first among lines
FirstAt(lines, l) ==
  CHOOSE i \in DOMAIN lines :
    lines[i] = l /\ \A j \in DOMAIN lines : lines[j] = l => i <= j

\* C10: a line is in the result if and only if it holds a unit token (kWh
\* or mnd), ends with a decimal amount and holds none of the excluded
\* words; the result has no two equal lines after whitespace normalization,
\* and its lines stand in the order of their first occurrence in the text.
C10_LineItemScanAsStated ==
  call.op = "extractLineItems" =>
    LET lines == NormalizedLines(call.text)
    IN /\ ret.t = "arr"
       /\ \A k \in DOMAIN ret.a : \E i \in DOMAIN lines : ret.a[k] = Txt(lines[i])
       /\ \A i \in DOMAIN lines :
            Qualifies(lines[i]) <=> \E k \in DOMAIN ret.a : ret.a[k] = Txt(lines[i])
       /\ \A j, k \in DOMAIN ret.a :
            j < k => /\ ret.a[j] # ret.a[k]
                     /\ FirstAt(lines, ret.a[j].c) < FirstAt(lines, ret.a[k].c)

\* "b mnd 1 000.50", then "a kWh 1,00" twice, the second time with other
\* white space: two lines, in that order
C10_Witness ==
  /\ call.op = "extractLineItems"
  /\ Len(NormalizedLines(call.text)) = 3
  /\ NormalizedLines(call.text)[2] = NormalizedLines(call.text)[3]
  /\ ScannedLines(call.text)[2] # ScannedLines(call.text)[3]
  /\ ret = Arr(<<Txt(<<"b", " ", "m", "n", "d", " ", "1", " ", "0", "0", "0", ".", "5", "0">>),
                 Txt(<<"a", " ", "k", "W", "h", " ", "1", ",", "0", "0">>)>>)

---------------------------------------------------------------------------
(* The confidence of a resolved field *)

\* the entity that wins for a type: the first of those of the highest
\* ranking confidence; 0 when the list has none of the type
Winner(L, type) ==
  LET hits == {i \in 1..Len(L) : L[i].type = type}
      top == {i \in hits :
                \A j \in hits : RankingConfidence(L[j]) <= RankingConfidence(L[i])}
  IN IF hits = {} THEN 0 ELSE CHOOSE i \in top : \A j \in top : i <= j

\* C11: pick (part_000) and field (server.js) give the winning entity's
\* confidence as it is when it is a number, and null when it is absent or
\* not a number or when the list has no entity of the type; a confidence
\* that is not known is never given as 0, though it ranks as 0.
C11_ConfidenceSurfaced ==
  call.op \in {"pick", "field"} =>
    LET L == ListOf(call.list)
        w == Winner(L, call.type)
    IN ret.confidence =
         IF w = 0 THEN Null
         ELSE IF L[w].confidence.t = "num" THEN L[w].confidence
         ELSE Null

\* an entity without confidence stands before one of confidence 0 and wins
\* the tie: the confidence given is null, not 0
C11_Witness ==
  /\ call.op = "pick"
  /\ call.type = Supplier
  /\ LET L == ListOf(call.list)
     IN /\ Len(L) = 2
        /\ L[1].type = Supplier /\ L[1].confidence = Undef
        /\ L[2].type = Supplier /\ L[2].confidence = Num(0)
  /\ ret.confidence = Null

---------------------------------------------------------------------------
(* The order of the flattened records *)

\* the nodes of the tree by their place: <<i>> is the i-th entity of the
\* list, <<i, j>> its j-th property, <<i, j, k>> the k-th property of that
Places(L) ==
  {<<i>> : i \in 1..Len(L)}
    \cup UNION {{<<i, j>> : j \in 1..Len(ChildrenOf(L[i]))} : i \in 1..Len(L)}
    \cup UNION {UNION {{<<i, j, k>> :
                          k \in 1..Len(ChildrenOf(ChildrenOf(L[i])[j]))} :
                       j \in 1..Len(ChildrenOf(L[i]))} : i \in 1..Len(L)}

NodeAt(L, p) ==
  IF Len(p) = 1 THEN L[p[1]]
  ELSE IF Len(p) = 2 THEN ChildrenOf(L[p[1]])[p[2]]
  ELSE ChildrenOf(ChildrenOf(L[p[1]])[p[2]])[p[3]]

\* the types from the root down to the node, with dots between them; a
\* node without type counts as "unknown"
ChainOfTypes(L, p) ==
  IF Len(p) = 1 THEN TypeName(NodeAt(L, p))
  ELSE IF Len(p) = 2
  THEN TypeName(NodeAt(L, <<p[1]>>)) \o "." \o TypeName(NodeAt(L, p))
  ELSE TypeName(NodeAt(L, <<p[1]>>)) \o "." \o TypeName(NodeAt(L, <<p[1], p[2]>>))
         \o "." \o TypeName(NodeAt(L, p))

\* p comes before q in depth-first pre-order: p is an ancestor of q, or at
\* the first place where they part p takes the earlier sibling
ComesBefore(p, q) ==
  \/ Len(p) < Len(q) /\ \A k \in 1..Len(p) : p[k] = q[k]
  \/ \E k \in 1..Len(p) :
       /\ k <= Len(q)
       /\ p[k] < q[k]
       /\ \A j \in 1..(k - 1) : p[j] = q[j]

\* C12: flattenEntities gives exactly one record per node of the entity
\* tree, in depth-first pre-order (a parent right before its descendants,
\* siblings in list order); the type of a record is the node's own type at
\* the root and "<parent's emitted type>.<own type>" below, so the chain of
\* types from the root to the node.
C12_PreOrderDottedTypes ==
  call.op = "flattenEntities" =>
    LET L == ListOf(call.list)
    IN /\ ret.t = "arr"
       /\ Len(ret.a) = Cardinality(Places(L))
       /\ \A p \in Places(L) :
            LET k == 1 + Cardinality({q \in Places(L) : ComesBefore(q, p)})
            IN /\ ret.a[k].ref = NodeAt(L, p)
               /\ ret.a[k].type = Str(ChainOfTypes(L, p))

\* a tree of three levels followed by a supplier group with two properties:
\* six records, every parent right before its own
C12_Witness ==
  /\ call.op = "flattenEntities"
  /\ Len(ListOf(call.list)) = 2
  /\ Len(ret.a) = 6
  /\ [i \in 1..6 |-> ret.a[i].type.s] =
       <<"Outer", "Outer.Supplier", "Outer.Supplier.Suppli_name",
         "Supplier", "Supplier.Supplier_address", "Supplier.Suppli_name">>

---------------------------------------------------------------------------
(* Blank values of getFromGroupOrFlat *)

\* the values of the nodes of the tree whose dotted type is "G.F"
FlatValues(L, groupType, fieldType) ==
  {entityValue(n.e) :
     n \in {m \in TreeNodes(L) : m.path = groupType.s \o "." \o fieldType.s}}

\* C14: getFromGroupOrFlat never returns an empty or whitespace-only string,
\* and it returns null whenever neither the grouped property nor a flattened
\* "Group.field" node has a value that is non-empty after trimming.
C14_NeverBlankAsStated ==
  call.op = "getFromGroupOrFlat" =>
    LET L == ListOf(call.list)
        grouped == GroupedValue(call.list, call.groupType, call.fieldType)
        flat == FlatValues(L, call.groupType, call.fieldType)
    IN /\ ret = Null \/ HasText(ret)
       /\ (~HasText(grouped) /\ \A v \in flat : ~HasText(v)) => ret = Null

\* the only entity is a flat "Supplier.Suppli_name" whose text is one space:
\* the space is returned
C14_Witness ==
  /\ call.op = "getFromGroupOrFlat"
  /\ call.groupType = Supplier /\ call.fieldType = SuppliName
  /\ call.list = Arr(<<Entity(Str("Supplier.Suppli_name"), Txt(<<" ">>), Undef,
                               Num(4), Undef)>>)
  /\ ret = Txt(<<" ">>)

---------------------------------------------------------------------------
(* Ties between entities, and the list after the selection *)

---------------------------------------------------------------------------
(* Entity first, text second *)

ExtractOps ==
  {"extractInvoiceId", "extractInvoiceDate", "extractCurrency",
   "extractSupplierName", "extractSupplierAddress", "extractTotalAmount",
   "extractNetAmount"}

\* the entity type that an extractor asks for
FieldType(op) ==
  CASE op = "extractInvoiceId" -> Str("invoice_id")
    [] op = "extractInvoiceDate" -> Str("invoice_date")
    [] op = "extractCurrency" -> Str("currency")
    [] op = "extractSupplierName" -> Str("supplier_name")
    [] op = "extractSupplierAddress" -> Str("supplier_address")
    [] op = "extractTotalAmount" -> Str("total_amount")
    [] op = "extractNetAmount" -> Str("net_amount")

\* the extractor op on the same entities with another text
Extract(op, list, txt) ==
  CASE op = "extractInvoiceId" -> extractInvoiceId(list, txt)
    [] op = "extractInvoiceDate" -> extractInvoiceDate(list, txt)
    [] op = "extractCurrency" -> extractCurrency(list, txt)
    [] op = "extractSupplierName" -> extractSupplierName(list, txt)
    [] op = "extractSupplierAddress" -> extractSupplierAddress(list, txt)
    [] op = "extractTotalAmount" -> extractTotalAmount(list, txt)
    [] op = "extractNetAmount" -> extractNetAmount(list, txt)

\* the text of the best entity of the type: the text of its normalized value
\* if that is a string, else its mention text; null without such an entity
BestText(list, type) ==
  LET L == ListOf(list)
      w == Winner(L, type)
  IN IF w = 0 THEN Null
     ELSE IF L[w].normalizedValue.t = "nv" /\ L[w].normalizedValue.text.t = "txt"
     THEN L[w].normalizedValue.text
     ELSE L[w].mentionText

\* the text has no part in the result: any other text gives the same
TextIgnored ==
  \A t \in ExtractTexts : Extract(call.op, call.list, t) = ret

\* C13 as stated: for each of the seven fields, whenever the best entity of
\* the type yields a value, the patterns over the text have no influence on
\* the result.
C13_TextOnlyWithoutEntityAsStated ==
  call.op \in ExtractOps =>
    (HasText(BestText(call.list, FieldType(call.op))) => TextIgnored)

\* C13: for invoice id, currency, supplier name, supplier address, total
\* amount and net amount, whenever the best entity of the type yields a value
\* the patterns over the text have no influence on the result; for the
\* invoice date this holds whenever the value of the best entity holds a
\* date pattern.
C13_TextOnlyWithoutEntityDate ==
  call.op \in ExtractOps =>
    LET v == BestText(call.list, FieldType(call.op))
    IN (/\ HasText(v)
        /\ call.op = "extractInvoiceDate" => HasDatePattern(v.c))
         => TextIgnored

\* the entity says 1.2.2026 and the text says "Dato 3.4.2026": the result is
\* the date of the entity, though the text alone would give another
C13_Witness ==
  /\ call.op = "extractInvoiceDate"
  /\ call.text = Txt(TextIdDate)
  /\ BestText(call.list, Str("invoice_date"))
       = Txt(<<"1", ".", "2", ".", "2", "0", "2", "6">>)
  /\ ret = Txt(<<"2", "0", "2", "6", "-", "0", "2", "-", "0", "1">>)
  /\ extractInvoiceDate(Undef, call.text)
       = Txt(<<"2", "0", "2", "6", "-", "0", "4", "-", "0", "3">>)

====
